---- MODULE Spec2Model ----
(***************************************************************************)
(* State-machine model of the discard-hooks program (Token-2022 transfer   *)
(* hook): one CardConfig account, the GlobalConfig singleton, the host     *)
(* clock, and the outcome of the most recent instruction.                  *)
(*                                                                         *)
(* Every handler is an operator from the accounts it receives to a record  *)
(* [res, card] (or [res, global]) holding the Result it returns and the    *)
(* account as the handler left it at the point of return.  The actions     *)
(* apply the Anchor account constraints, call the handler and commit the   *)
(* account only when the instruction returns Ok (a failed instruction's    *)
(* writes are discarded by the runtime).                                   *)
(***************************************************************************)
EXTENDS Integers, Sequences, FiniteSets, TLC

VARIABLES card_config, global_config, clock, last, limit_lowered

vars == <<card_config, global_config, clock, last, limit_lowered>>

(***************************************************************************)
(* Bounds of the model                                                     *)
(***************************************************************************)
\* number of clock advances explored
MaxTicks == 1
\* record_transaction is explored while every transaction count is below this
MaxTx == 2

(***************************************************************************)
(* Program constants                                                       *)
(***************************************************************************)
MAX_MERCHANTS == 50
MAX_MCC_CODES == 100
SLOTS_PER_DAY == 216000
SLOTS_PER_WEEK == 1512000
SLOTS_PER_MONTH == 6480000
\* initialize_card_config sets monthly to 10000000000, which is beyond the
\* integers the model checker represents; the largest representable value
\* stands for it.  Every total + amount the bounded model reaches is far
\* below both, so the monthly comparison decides identically.
DEFAULT_MONTHLY_LIMIT == 2147483647

(***************************************************************************)
(* Values                                                                  *)
(***************************************************************************)
None == [tag |-> "None"]
Some(v) == [tag |-> "Some", value |-> v]
is_some(o) == o.tag = "Some"
is_none(o) == o.tag = "None"

\* Pubkeys.  "owner" is the key whose bytes equal the card's owner_did_hash.
Pubkeys == {"owner", "admin", "fraud", "cron", "other"}
\* Pubkey::to_bytes and authority_did_hash are the identity on the 32 bytes.
to_bytes(key) == key
authority_did_hash(authority) == to_bytes(authority)

CardStatus == {"Pending", "Active", "Paused", "Frozen", "Terminated"}

FreezeReason == {"FraudDetected", "UserRequest", "AdminAction", "VelocityBreach",
                 "SuspiciousActivity", "LostOrStolen", "ComplianceHold"}

\* contains() of a Vec
contains(vec, x) == \E i \in 1..Len(vec) : vec[i] = x

(***************************************************************************)
(* GlobalConfig                                                            *)
(***************************************************************************)
mutant_is_authorized_reset_authority(g, authority) ==
    contains(g.reset_authorities, authority)

is_authorized_reset_authority(g, authority) ==
    g.admin = authority \/ contains(g.reset_authorities, authority)

mutant_is_authorized_fraud_authority(g, authority) ==
    contains(g.fraud_authorities, authority)

is_authorized_fraud_authority(g, authority) ==
    g.admin = authority \/ contains(g.fraud_authorities, authority)

(***************************************************************************)
(* VelocityCounters                                                        *)
(***************************************************************************)
VelocityCounters_record_transaction(c, amount) ==
    [c EXCEPT !.daily_total = @ + amount,
              !.weekly_total = @ + amount,
              !.monthly_total = @ + amount,
              !.daily_transaction_count = @ + 1,
              !.weekly_transaction_count = @ + 1,
              !.monthly_transaction_count = @ + 1]

VelocityCounters_reset_daily(c, current_slot) ==
    [c EXCEPT !.daily_total = 0,
              !.daily_transaction_count = 0,
              !.last_daily_reset_slot = current_slot]

VelocityCounters_reset_weekly(c, current_slot) ==
    [c EXCEPT !.weekly_total = 0,
              !.weekly_transaction_count = 0,
              !.last_weekly_reset_slot = current_slot]

VelocityCounters_reset_monthly(c, current_slot) ==
    [c EXCEPT !.monthly_total = 0,
              !.monthly_transaction_count = 0,
              !.last_monthly_reset_slot = current_slot]

(***************************************************************************)
(* CardConfig: the authorization decision                                  *)
(***************************************************************************)
\* u64 additions are exact here: the amounts and record counts the model
\* explores keep every sum far below 2^64.
mutant_check_velocity_limits(card, amount) ==
    IF card.velocity_counters.daily_total + amount > card.velocity_limits.daily
      THEN "DailyLimitExceeded"
    ELSE IF amount > card.velocity_limits.per_transaction
      THEN "TransactionLimitExceeded"
    ELSE IF card.velocity_counters.weekly_total + amount > card.velocity_limits.weekly
      THEN "WeeklyLimitExceeded"
    ELSE IF card.velocity_counters.monthly_total + amount > card.velocity_limits.monthly
      THEN "MonthlyLimitExceeded"
    ELSE "Ok"

check_velocity_limits(card, amount) ==
    IF amount > card.velocity_limits.per_transaction
      THEN "TransactionLimitExceeded"
    ELSE IF card.velocity_counters.daily_total + amount > card.velocity_limits.daily
      THEN "DailyLimitExceeded"
    ELSE IF card.velocity_counters.weekly_total + amount > card.velocity_limits.weekly
      THEN "WeeklyLimitExceeded"
    ELSE IF card.velocity_counters.monthly_total + amount > card.velocity_limits.monthly
      THEN "MonthlyLimitExceeded"
    ELSE "Ok"

\* the blocklist consulted only when no whitelist is enabled
mutant_is_transaction_allowed_blocklist(card, amount, merchant_id, mcc_code) ==
    IF card.status # "Active"
      THEN "CardNotActive"
    ELSE IF is_some(card.freeze_info)
      THEN "CardFrozen"
    ELSE IF card.merchant_whitelist_enabled /\ is_some(merchant_id)
            /\ ~contains(card.merchant_whitelist, merchant_id.value)
      THEN "MerchantNotWhitelisted"
    ELSE IF ~card.merchant_whitelist_enabled /\ is_some(merchant_id)
            /\ contains(card.merchant_blocklist, merchant_id.value)
      THEN "MerchantBlocked"
    ELSE IF card.mcc_whitelist_enabled /\ is_some(mcc_code)
            /\ ~contains(card.mcc_whitelist, mcc_code.value)
      THEN "MccNotWhitelisted"
    ELSE IF is_some(mcc_code) /\ contains(card.mcc_blocklist, mcc_code.value)
      THEN "MccBlocked"
    ELSE check_velocity_limits(card, amount)

\* an enabled MCC whitelist denying a request that supplies no MCC
mutant_is_transaction_allowed_absent(card, amount, merchant_id, mcc_code) ==
    IF card.status # "Active"
      THEN "CardNotActive"
    ELSE IF is_some(card.freeze_info)
      THEN "CardFrozen"
    ELSE IF card.merchant_whitelist_enabled /\ is_some(merchant_id)
            /\ ~contains(card.merchant_whitelist, merchant_id.value)
      THEN "MerchantNotWhitelisted"
    ELSE IF is_some(merchant_id) /\ contains(card.merchant_blocklist, merchant_id.value)
      THEN "MerchantBlocked"
    ELSE IF card.mcc_whitelist_enabled
            /\ (is_none(mcc_code) \/ ~contains(card.mcc_whitelist, mcc_code.value))
      THEN "MccNotWhitelisted"
    ELSE IF is_some(mcc_code) /\ contains(card.mcc_blocklist, mcc_code.value)
      THEN "MccBlocked"
    ELSE check_velocity_limits(card, amount)

is_transaction_allowed(card, amount, merchant_id, mcc_code) ==
    IF card.status # "Active"
      THEN "CardNotActive"
    ELSE IF is_some(card.freeze_info)
      THEN "CardFrozen"
    ELSE IF card.merchant_whitelist_enabled /\ is_some(merchant_id)
            /\ ~contains(card.merchant_whitelist, merchant_id.value)
      THEN "MerchantNotWhitelisted"
    ELSE IF is_some(merchant_id) /\ contains(card.merchant_blocklist, merchant_id.value)
      THEN "MerchantBlocked"
    ELSE IF card.mcc_whitelist_enabled /\ is_some(mcc_code)
            /\ ~contains(card.mcc_whitelist, mcc_code.value)
      THEN "MccNotWhitelisted"
    ELSE IF is_some(mcc_code) /\ contains(card.mcc_blocklist, mcc_code.value)
      THEN "MccBlocked"
    ELSE check_velocity_limits(card, amount)

\* transfer_hook::handler: the card account is borrowed immutably, the
\* merchant and the MCC are always None.
mutant_handler(card, amount) ==
    [res  |-> is_transaction_allowed(card, amount, None, None),
     card |-> [card EXCEPT !.velocity_counters =
                              VelocityCounters_record_transaction(@, amount)]]

handler(card, amount) ==
    [res  |-> is_transaction_allowed(card, amount, None, None),
     card |-> card]

validate_transaction(card, amount, merchant_id, mcc_code) ==
    is_transaction_allowed(card, amount, merchant_id, mcc_code)

(***************************************************************************)
(* Confidential transfer hook                                              *)
(* A proof blob is [len, head]: its length in bytes and its first (up to)  *)
(* 64 bytes as one opaque value.                                           *)
(***************************************************************************)
verify_velocity_range_proof(proof_data, card) ==
    IF proof_data.len < 64 THEN "InvalidProofData" ELSE "Ok"

\* "For now, store b as the updated value."
homomorphic_add(a, b) == b

encrypted_add(total, encrypted_amount) ==
    IF is_some(total) THEN Some(homomorphic_add(total.value, encrypted_amount))
                      ELSE Some(encrypted_amount)

\* the monthly total left out
mutant_update_encrypted_counters(card, proof_data) ==
    IF proof_data.len < 64
      THEN [res |-> "InvalidProofData", card |-> card]
      ELSE [res  |-> "Ok",
            card |-> [card EXCEPT
               !.encrypted_daily_total = encrypted_add(@, proof_data.head),
               !.encrypted_weekly_total = encrypted_add(@, proof_data.head)]]

update_encrypted_counters(card, proof_data) ==
    IF proof_data.len < 64
      THEN [res |-> "InvalidProofData", card |-> card]
      ELSE [res  |-> "Ok",
            card |-> [card EXCEPT
               !.encrypted_daily_total = encrypted_add(@, proof_data.head),
               !.encrypted_weekly_total = encrypted_add(@, proof_data.head),
               !.encrypted_monthly_total = encrypted_add(@, proof_data.head)]]

\* the confidential-mode test left out
mutant_confidential_handler(card, proof_data) ==
    IF card.status # "Active"
      THEN [res |-> "CardNotActive", card |-> card]
    ELSE IF is_some(card.freeze_info)
      THEN [res |-> "CardFrozen", card |-> card]
    ELSE IF verify_velocity_range_proof(proof_data, card) # "Ok"
      THEN [res |-> verify_velocity_range_proof(proof_data, card), card |-> card]
    ELSE update_encrypted_counters(card, proof_data)

confidential_handler(card, proof_data) ==
    IF card.status # "Active"
      THEN [res |-> "CardNotActive", card |-> card]
    ELSE IF is_some(card.freeze_info)
      THEN [res |-> "CardFrozen", card |-> card]
    ELSE IF ~card.confidential_mode
      THEN [res |-> "ConfidentialModeNotEnabled", card |-> card]
    \* merchant_id and mcc_code are None: the four list checks are skipped
    ELSE IF verify_velocity_range_proof(proof_data, card) # "Ok"
      THEN [res |-> verify_velocity_range_proof(proof_data, card), card |-> card]
    ELSE update_encrypted_counters(card, proof_data)

(***************************************************************************)
(* Velocity instructions                                                   *)
(***************************************************************************)
update_limits(card, limits, clk) ==
    [res  |-> "Ok",
     card |-> [card EXCEPT !.velocity_limits = limits,
                           !.updated_at = clk.unix_timestamp]]

\* a subtraction that wraps: a difference below zero comes out above every
\* window span
mutant_saturating_sub(a, b) == IF a >= b THEN a - b ELSE SLOTS_PER_MONTH + (b - a)

\* saturating_sub of two u64
saturating_sub(a, b) == IF a >= b THEN a - b ELSE 0

\* a daily reset that takes the weekly window with it
mutant_auto_reset_if_needed(counters, current_slot) ==
    LET c1 == IF saturating_sub(current_slot, counters.last_daily_reset_slot)
                   >= SLOTS_PER_DAY
              THEN VelocityCounters_reset_weekly(
                       VelocityCounters_reset_daily(counters, current_slot),
                       current_slot)
              ELSE counters
        c2 == IF saturating_sub(current_slot, c1.last_weekly_reset_slot)
                   >= SLOTS_PER_WEEK
              THEN VelocityCounters_reset_weekly(c1, current_slot)
              ELSE c1
        c3 == IF saturating_sub(current_slot, c2.last_monthly_reset_slot)
                   >= SLOTS_PER_MONTH
              THEN VelocityCounters_reset_monthly(c2, current_slot)
              ELSE c2
    IN c3

auto_reset_if_needed(counters, current_slot) ==
    LET c1 == IF saturating_sub(current_slot, counters.last_daily_reset_slot)
                   >= SLOTS_PER_DAY
              THEN VelocityCounters_reset_daily(counters, current_slot)
              ELSE counters
        c2 == IF saturating_sub(current_slot, c1.last_weekly_reset_slot)
                   >= SLOTS_PER_WEEK
              THEN VelocityCounters_reset_weekly(c1, current_slot)
              ELSE c1
        c3 == IF saturating_sub(current_slot, c2.last_monthly_reset_slot)
                   >= SLOTS_PER_MONTH
              THEN VelocityCounters_reset_monthly(c2, current_slot)
              ELSE c2
    IN c3

record_transaction(card, amount, merchant_id, mcc_code, clk) ==
    [res  |-> "Ok",
     card |-> [card EXCEPT
        !.velocity_counters =
            VelocityCounters_record_transaction(
                auto_reset_if_needed(@, clk.slot), amount),
        !.last_transaction_at = Some(clk.unix_timestamp),
        !.updated_at = clk.unix_timestamp]]

\* a daily reset that also clears the encrypted daily total
mutant_reset_daily(card, clk) ==
    [res  |-> "Ok",
     card |-> [card EXCEPT
        !.velocity_counters = VelocityCounters_reset_daily(@, clk.slot),
        !.encrypted_daily_total = None,
        !.updated_at = clk.unix_timestamp]]

reset_daily(card, clk) ==
    [res  |-> "Ok",
     card |-> [card EXCEPT
        !.velocity_counters = VelocityCounters_reset_daily(@, clk.slot),
        !.updated_at = clk.unix_timestamp]]

reset_weekly(card, clk) ==
    [res  |-> "Ok",
     card |-> [card EXCEPT
        !.velocity_counters = VelocityCounters_reset_weekly(@, clk.slot),
        !.updated_at = clk.unix_timestamp]]

reset_monthly(card, clk) ==
    [res  |-> "Ok",
     card |-> [card EXCEPT
        !.velocity_counters = VelocityCounters_reset_monthly(@, clk.slot),
        !.updated_at = clk.unix_timestamp]]

(***************************************************************************)
(* Merchant and MCC lists                                                  *)
(* Each handler returns the card as it stands at the point of return, so   *)
(* an error raised inside the loop carries the entries pushed before it.   *)
(***************************************************************************)
\* iter().position(..) followed by Vec::remove(pos); vec unchanged when the
\* value is absent
remove_value(vec, x) ==
    IF ~contains(vec, x) THEN vec
    ELSE LET pos == CHOOSE i \in 1..Len(vec) :
                        vec[i] = x /\ \A j \in 1..(i - 1) : vec[j] # x
         IN  SubSeq(vec, 1, pos - 1) \o SubSeq(vec, pos + 1, Len(vec))

\* The loops below run over the items in order; the range lo..hi is split in
\* halves, the second half continuing from the list the first half left, so
\* that a batch longer than a list's capacity is evaluated without deep
\* recursion.

\* for merchant in merchants { full check; push unless present }
RECURSIVE mutant_push_merchants(_, _, _, _)
mutant_push_merchants(st, merchants, lo, hi) ==
    IF st.full \/ lo > hi THEN st
    ELSE IF lo = hi
      THEN IF Len(st.list) > MAX_MERCHANTS
             THEN [full |-> TRUE, list |-> st.list]
             ELSE [full |-> FALSE,
                   list |-> IF contains(st.list, merchants[lo]) THEN st.list
                            ELSE Append(st.list, merchants[lo])]
    ELSE mutant_push_merchants(
            mutant_push_merchants(st, merchants, lo, (lo + hi) \div 2),
            merchants, (lo + hi) \div 2 + 1, hi)

\* a push that does not look for the entry in the list
RECURSIVE mutant_push_merchants_dup(_, _, _, _)
mutant_push_merchants_dup(st, merchants, lo, hi) ==
    IF st.full \/ lo > hi THEN st
    ELSE IF lo = hi
      THEN IF Len(st.list) >= MAX_MERCHANTS
             THEN [full |-> TRUE, list |-> st.list]
             ELSE [full |-> FALSE, list |-> Append(st.list, merchants[lo])]
    ELSE mutant_push_merchants_dup(
            mutant_push_merchants_dup(st, merchants, lo, (lo + hi) \div 2),
            merchants, (lo + hi) \div 2 + 1, hi)

RECURSIVE push_merchants(_, _, _, _)
push_merchants(st, merchants, lo, hi) ==
    IF st.full \/ lo > hi THEN st
    ELSE IF lo = hi
      THEN IF Len(st.list) >= MAX_MERCHANTS
             THEN [full |-> TRUE, list |-> st.list]
             ELSE [full |-> FALSE,
                   list |-> IF contains(st.list, merchants[lo]) THEN st.list
                            ELSE Append(st.list, merchants[lo])]
    ELSE push_merchants(push_merchants(st, merchants, lo, (lo + hi) \div 2),
                        merchants, (lo + hi) \div 2 + 1, hi)

\* for mcc in mcc_codes { range check; full check; push unless present }
RECURSIVE push_mcc_codes(_, _, _, _)
push_mcc_codes(st, mcc_codes, lo, hi) ==
    IF st.err # "Ok" \/ lo > hi THEN st
    ELSE IF lo = hi
      THEN IF mcc_codes[lo] = 0 \/ mcc_codes[lo] > 9999
             THEN [err |-> "InvalidMccCode", list |-> st.list]
           ELSE IF Len(st.list) >= MAX_MCC_CODES
             THEN [err |-> "Full", list |-> st.list]
           ELSE [err  |-> "Ok",
                 list |-> IF contains(st.list, mcc_codes[lo]) THEN st.list
                          ELSE Append(st.list, mcc_codes[lo])]
    ELSE push_mcc_codes(push_mcc_codes(st, mcc_codes, lo, (lo + hi) \div 2),
                        mcc_codes, (lo + hi) \div 2 + 1, hi)

\* for x in items { remove the first position holding x, if any }
\* (nothing is left to remove from an empty list)
RECURSIVE remove_each(_, _, _, _)
remove_each(list, items, lo, hi) ==
    IF list = <<>> \/ lo > hi THEN list
    ELSE IF lo = hi THEN remove_value(list, items[lo])
    ELSE remove_each(remove_each(list, items, lo, (lo + hi) \div 2),
                     items, (lo + hi) \div 2 + 1, hi)

merchant_add_to_whitelist(card, merchants, clk) ==
    LET r == push_merchants([full |-> FALSE, list |-> card.merchant_whitelist],
                            merchants, 1, Len(merchants)) IN
    IF r.full
      THEN [res  |-> "MerchantWhitelistFull",
            card |-> [card EXCEPT !.merchant_whitelist = r.list]]
      ELSE [res  |-> "Ok",
            card |-> [card EXCEPT
               !.merchant_whitelist = r.list,
               !.merchant_whitelist_enabled = IF r.list # <<>> THEN TRUE ELSE @,
               !.updated_at = clk.unix_timestamp]]

\* a removal that leaves the enabled flag as it is
mutant_merchant_remove_from_whitelist(card, merchants, clk) ==
    LET l == remove_each(card.merchant_whitelist, merchants, 1, Len(merchants)) IN
    [res  |-> "Ok",
     card |-> [card EXCEPT
        !.merchant_whitelist = l,
        !.updated_at = clk.unix_timestamp]]

merchant_remove_from_whitelist(card, merchants, clk) ==
    LET l == remove_each(card.merchant_whitelist, merchants, 1, Len(merchants)) IN
    [res  |-> "Ok",
     card |-> [card EXCEPT
        !.merchant_whitelist = l,
        !.merchant_whitelist_enabled = IF l = <<>> THEN FALSE ELSE @,
        !.updated_at = clk.unix_timestamp]]

merchant_add_to_blocklist(card, merchants, clk) ==
    LET r == push_merchants([full |-> FALSE, list |-> card.merchant_blocklist],
                            merchants, 1, Len(merchants)) IN
    IF r.full
      THEN [res  |-> "MerchantBlocklistFull",
            card |-> [card EXCEPT !.merchant_blocklist = r.list]]
      ELSE [res  |-> "Ok",
            card |-> [card EXCEPT !.merchant_blocklist = r.list,
                                  !.updated_at = clk.unix_timestamp]]

merchant_remove_from_blocklist(card, merchants, clk) ==
    [res  |-> "Ok",
     card |-> [card EXCEPT
        !.merchant_blocklist = remove_each(@, merchants, 1, Len(merchants)),
        !.updated_at = clk.unix_timestamp]]

mcc_add_to_whitelist(card, mcc_codes, clk) ==
    LET r == push_mcc_codes([err |-> "Ok", list |-> card.mcc_whitelist],
                            mcc_codes, 1, Len(mcc_codes)) IN
    IF r.err # "Ok"
      THEN [res  |-> IF r.err = "Full" THEN "MccWhitelistFull" ELSE r.err,
            card |-> [card EXCEPT !.mcc_whitelist = r.list]]
      ELSE [res  |-> "Ok",
            card |-> [card EXCEPT
               !.mcc_whitelist = r.list,
               !.mcc_whitelist_enabled = IF r.list # <<>> THEN TRUE ELSE @,
               !.updated_at = clk.unix_timestamp]]

mcc_remove_from_whitelist(card, mcc_codes, clk) ==
    LET l == remove_each(card.mcc_whitelist, mcc_codes, 1, Len(mcc_codes)) IN
    [res  |-> "Ok",
     card |-> [card EXCEPT
        !.mcc_whitelist = l,
        !.mcc_whitelist_enabled = IF l = <<>> THEN FALSE ELSE @,
        !.updated_at = clk.unix_timestamp]]

mcc_add_to_blocklist(card, mcc_codes, clk) ==
    LET r == push_mcc_codes([err |-> "Ok", list |-> card.mcc_blocklist],
                            mcc_codes, 1, Len(mcc_codes)) IN
    IF r.err # "Ok"
      THEN [res  |-> IF r.err = "Full" THEN "MccBlocklistFull" ELSE r.err,
            card |-> [card EXCEPT !.mcc_blocklist = r.list]]
      ELSE [res  |-> "Ok",
            card |-> [card EXCEPT !.mcc_blocklist = r.list,
                                  !.updated_at = clk.unix_timestamp]]

mcc_remove_from_blocklist(card, mcc_codes, clk) ==
    [res  |-> "Ok",
     card |-> [card EXCEPT
        !.mcc_blocklist = remove_each(@, mcc_codes, 1, Len(mcc_codes)),
        !.updated_at = clk.unix_timestamp]]

(***************************************************************************)
(* Emergency controls                                                      *)
(***************************************************************************)
mutant_freeze(card, g, authority, reason, clk) ==
    IF to_bytes(authority) # card.owner_did_hash
       /\ ~is_authorized_fraud_authority(g, authority)
      THEN [res |-> "Unauthorized", card |-> card, log |-> "-"]
      ELSE [res  |-> "Ok",
            card |-> [card EXCEPT
               !.freeze_info = Some([reason     |-> reason,
                                     frozen_by  |-> authority,
                                     frozen_at  |-> clk.unix_timestamp,
                                     expires_at |-> None]),
               !.updated_at = clk.unix_timestamp],
            log  |-> "Card frozen successfully"]

freeze(card, g, authority, reason, clk) ==
    IF to_bytes(authority) # card.owner_did_hash
       /\ ~is_authorized_fraud_authority(g, authority)
      THEN [res |-> "Unauthorized", card |-> card, log |-> "-"]
      ELSE [res  |-> "Ok",
            card |-> [card EXCEPT
               !.freeze_info = Some([reason     |-> reason,
                                     frozen_by  |-> authority,
                                     frozen_at  |-> clk.unix_timestamp,
                                     expires_at |-> None]),
               !.status = "Frozen",
               !.updated_at = clk.unix_timestamp],
            log  |-> "Card frozen successfully"]

\* FreezeReason::requires_admin_review and FreezeReason::user_can_unfreeze
requires_admin_review(reason) ==
    reason \in {"FraudDetected", "AdminAction", "ComplianceHold"}

user_can_unfreeze(reason) ==
    reason \in {"UserRequest", "VelocityBreach"}

\* an unfreeze that holds a freeze whose reason requires admin review against
\* every caller but the admin
mutant_unfreeze_review(card, g, authority, clk) ==
    IF to_bytes(authority) # card.owner_did_hash
       /\ ~is_authorized_fraud_authority(g, authority)
      THEN [res |-> "Unauthorized", card |-> card, log |-> "-"]
    ELSE IF is_none(card.freeze_info)
      THEN [res |-> "Ok", card |-> card, log |-> "Card is not frozen"]
    ELSE IF requires_admin_review(card.freeze_info.value.reason)
            /\ authority # g.admin
      THEN [res |-> "Unauthorized", card |-> card, log |-> "-"]
    ELSE [res  |-> "Ok",
          card |-> [card EXCEPT !.freeze_info = None,
                                !.status = "Active",
                                !.updated_at = clk.unix_timestamp],
          log  |-> "Card unfrozen successfully"]

mutant_unfreeze(card, g, authority, clk) ==
    IF to_bytes(authority) # card.owner_did_hash
       /\ ~is_authorized_fraud_authority(g, authority)
      THEN [res |-> "Unauthorized", card |-> card, log |-> "-"]
    ELSE IF is_none(card.freeze_info)
      THEN [res |-> "Ok", card |-> card, log |-> "Card is not frozen"]
    ELSE [res  |-> "Ok",
          card |-> [card EXCEPT !.freeze_info = None,
                                !.status = "Active",
                                !.velocity_counters =
                                    VelocityCounters_reset_daily(@, clk.slot),
                                !.updated_at = clk.unix_timestamp],
          log  |-> "Card unfrozen successfully"]

mutant_unfreeze_noop(card, g, authority, clk) ==
    IF to_bytes(authority) # card.owner_did_hash
       /\ ~is_authorized_fraud_authority(g, authority)
      THEN [res |-> "Unauthorized", card |-> card, log |-> "-"]
    ELSE IF is_none(card.freeze_info)
      THEN [res  |-> "Ok",
            card |-> [card EXCEPT !.updated_at = clk.unix_timestamp],
            log  |-> "Card is not frozen"]
    ELSE [res  |-> "Ok",
          card |-> [card EXCEPT !.freeze_info = None,
                                !.status = "Active",
                                !.updated_at = clk.unix_timestamp],
          log  |-> "Card unfrozen successfully"]

unfreeze(card, g, authority, clk) ==
    IF to_bytes(authority) # card.owner_did_hash
       /\ ~is_authorized_fraud_authority(g, authority)
      THEN [res |-> "Unauthorized", card |-> card, log |-> "-"]
    ELSE IF is_none(card.freeze_info)
      THEN [res |-> "Ok", card |-> card, log |-> "Card is not frozen"]
    ELSE [res  |-> "Ok",
          card |-> [card EXCEPT !.freeze_info = None,
                                !.status = "Active",
                                !.updated_at = clk.unix_timestamp],
          log  |-> "Card unfrozen successfully"]

global_pause(g, clk) ==
    [res    |-> "Ok",
     global |-> [g EXCEPT !.is_paused = TRUE, !.updated_at = clk.unix_timestamp]]

global_resume(g, clk) ==
    [res    |-> "Ok",
     global |-> [g EXCEPT !.is_paused = FALSE, !.updated_at = clk.unix_timestamp]]

(***************************************************************************)
(* Card creation                                                           *)
(***************************************************************************)
DefaultPolicy ==
    [require_biometric |-> FALSE, require_2fa_above |-> None,
     allow_international |-> TRUE, allow_online |-> TRUE, allow_atm |-> TRUE,
     allow_contactless |-> TRUE, contactless_limit |-> 10000,
     allowed_countries |-> <<>>, blocked_countries |-> <<>>]

\* a policy update that also switches the card to confidential mode
mutant_update_card_policy(card, new_policy, clk) ==
    [res  |-> "Ok",
     card |-> [card EXCEPT !.policy = new_policy,
                           !.confidential_mode = TRUE,
                           !.updated_at = clk.unix_timestamp]]

update_card_policy(card, new_policy, clk) ==
    [res  |-> "Ok",
     card |-> [card EXCEPT !.policy = new_policy,
                           !.updated_at = clk.unix_timestamp]]

DefaultLimits ==
    [per_transaction |-> 100000000, daily |-> 500000000, weekly |-> 2000000000,
     monthly |-> DEFAULT_MONTHLY_LIMIT,
     max_daily_transactions |-> 1000, max_weekly_transactions |-> 5000,
     max_monthly_transactions |-> 20000]

\* The account is created zeroed by the init constraint, so the fields the
\* handler does not assign (confidential_mode, the encrypted totals) hold
\* their zero values.
initialize_card_config(card_id, owner_did_hash, clk) ==
    [card_id |-> card_id,
     owner_did_hash |-> owner_did_hash,
     status |-> "Active",
     policy |-> DefaultPolicy,
     velocity_limits |-> DefaultLimits,
     velocity_counters |->
        [daily_total |-> 0, weekly_total |-> 0, monthly_total |-> 0,
         daily_transaction_count |-> 0, weekly_transaction_count |-> 0,
         monthly_transaction_count |-> 0,
         last_daily_reset_slot |-> clk.slot,
         last_weekly_reset_slot |-> clk.slot,
         last_monthly_reset_slot |-> clk.slot],
     merchant_whitelist_enabled |-> FALSE,
     merchant_whitelist |-> <<>>,
     merchant_blocklist |-> <<>>,
     mcc_whitelist_enabled |-> FALSE,
     mcc_whitelist |-> <<>>,
     mcc_blocklist |-> <<>>,
     freeze_info |-> None,
     confidential_mode |-> FALSE,
     encrypted_daily_total |-> None,
     encrypted_weekly_total |-> None,
     encrypted_monthly_total |-> None,
     created_at |-> clk.unix_timestamp,
     updated_at |-> clk.unix_timestamp,
     last_transaction_at |-> None]

(***************************************************************************)
(* The velocity arithmetic at full width                                   *)
(* The definitions above add u64 values as integers, which is what the     *)
(* program computes while every sum stays below 2^64.  Here a u64 is the   *)
(* sequence of its four 16-bit limbs, least significant first, so that the *)
(* sums that leave the 64-bit range are computed as the program computes   *)
(* them.  The source adds with `+` and `+=`: on overflow a build with      *)
(* overflow checks panics, and the instruction fails with no account       *)
(* written, and a build without them wraps around.  Both builds are        *)
(* explored; overflow_checks says which one a behaviour runs.              *)
(***************************************************************************)
LIMB == 65536
U16_MAX == 65535

\* the u64 of an integer below 2^31
U64(n) == <<n % LIMB, (n \div LIMB) % LIMB, 0, 0>>
U64_MAX == <<LIMB - 1, LIMB - 1, LIMB - 1, LIMB - 1>>

\* u64::overflowing_add: the sum modulo 2^64 and whether it left the range
overflowing_add(a, b) ==
    LET s1 == a[1] + b[1]
        s2 == a[2] + b[2] + (s1 \div LIMB)
        s3 == a[3] + b[3] + (s2 \div LIMB)
        s4 == a[4] + b[4] + (s3 \div LIMB)
    IN  [value    |-> <<s1 % LIMB, s2 % LIMB, s3 % LIMB, s4 % LIMB>>,
         overflow |-> s4 >= LIMB]

\* a > b on two u64
u64_gt(a, b) ==
    \E i \in 1..4 : a[i] > b[i] /\ \A j \in (i + 1)..4 : a[j] = b[j]

\* a + b on two u64 as the build computes it
u64_add(a, b, overflow_checks) ==
    LET r == overflowing_add(a, b) IN
    [panic |-> r.overflow /\ overflow_checks, value |-> r.value]

\* a + b on two u16 as the build computes it
u16_add(a, b, overflow_checks) ==
    [panic |-> a + b > U16_MAX /\ overflow_checks, value |-> (a + b) % (U16_MAX + 1)]

\* VelocityCounters::record_transaction; panic when one of its six additions
\* panics
VelocityCounters_record_transaction_u64(c, amount, overflow_checks) ==
    LET d  == u64_add(c.daily_total, amount, overflow_checks)
        w  == u64_add(c.weekly_total, amount, overflow_checks)
        m  == u64_add(c.monthly_total, amount, overflow_checks)
        dc == u16_add(c.daily_transaction_count, 1, overflow_checks)
        wc == u16_add(c.weekly_transaction_count, 1, overflow_checks)
        mc == u16_add(c.monthly_transaction_count, 1, overflow_checks)
    IN  [panic    |-> d.panic \/ w.panic \/ m.panic
                         \/ dc.panic \/ wc.panic \/ mc.panic,
         counters |-> [c EXCEPT !.daily_total = d.value,
                                !.weekly_total = w.value,
                                !.monthly_total = m.value,
                                !.daily_transaction_count = dc.value,
                                !.weekly_transaction_count = wc.value,
                                !.monthly_transaction_count = mc.value]]

\* CardConfig::check_velocity_limits
check_velocity_limits_u64(card, amount, overflow_checks) ==
    LET d == u64_add(card.velocity_counters.daily_total, amount, overflow_checks)
        w == u64_add(card.velocity_counters.weekly_total, amount, overflow_checks)
        m == u64_add(card.velocity_counters.monthly_total, amount, overflow_checks)
    IN  IF u64_gt(amount, card.velocity_limits.per_transaction)
          THEN "TransactionLimitExceeded"
        ELSE IF d.panic THEN "Panic"
        ELSE IF u64_gt(d.value, card.velocity_limits.daily)
          THEN "DailyLimitExceeded"
        ELSE IF w.panic THEN "Panic"
        ELSE IF u64_gt(w.value, card.velocity_limits.weekly)
          THEN "WeeklyLimitExceeded"
        ELSE IF m.panic THEN "Panic"
        ELSE IF u64_gt(m.value, card.velocity_limits.monthly)
          THEN "MonthlyLimitExceeded"
        ELSE "Ok"

\* CardConfig::is_transaction_allowed with the merchant and the MCC that
\* transfer_hook::handler passes (None, None): the list checks do not apply
is_transaction_allowed_u64(card, amount, overflow_checks) ==
    IF card.status # "Active"
      THEN "CardNotActive"
    ELSE IF is_some(card.freeze_info)
      THEN "CardFrozen"
    ELSE check_velocity_limits_u64(card, amount, overflow_checks)

handler_u64(card, amount, overflow_checks) ==
    [res  |-> is_transaction_allowed_u64(card, amount, overflow_checks),
     card |-> card]

\* velocity::record_transaction (the clock of these behaviours stays at the
\* slot of the last reset, so auto_reset_if_needed resets no window)
record_transaction_u64(card, amount, merchant_id, mcc_code, clk, overflow_checks) ==
    LET r == VelocityCounters_record_transaction_u64(
                 auto_reset_if_needed(card.velocity_counters, clk.slot),
                 amount, overflow_checks) IN
    IF r.panic
      THEN [res |-> "Panic", card |-> card]
      ELSE [res  |-> "Ok",
            card |-> [card EXCEPT
               !.velocity_counters = r.counters,
               !.last_transaction_at = Some(clk.unix_timestamp),
               !.updated_at = clk.unix_timestamp]]

(***************************************************************************)
(* discard-state: the compressed CardState                                 *)
(* The record keeps the fields its spending and reset methods read or      *)
(* write.                                                                  *)
(***************************************************************************)
\* u64::checked_add(..).unwrap_or(u64::MAX); the sums of the amounts explored
\* stay far below 2^64
checked_add_or_max(a, b) == a + b

CardState_can_process_transaction(card, amount) ==
    IF card.is_frozen THEN "CardFrozen"
    ELSE IF ~(card.balance >= amount) THEN "InsufficientBalance"
    ELSE IF ~(amount <= card.spending_limit) THEN "ExceedsSpendingLimit"
    ELSE IF ~(checked_add_or_max(card.current_daily_spend, amount) <= card.daily_limit)
      THEN "ExceedsDailyLimit"
    ELSE IF ~(checked_add_or_max(card.current_monthly_spend, amount)
                 <= card.monthly_limit)
      THEN "ExceedsMonthlyLimit"
    ELSE "Ok"

CardState_apply_spending(card, amount) ==
    LET res == CardState_can_process_transaction(card, amount) IN
    IF res # "Ok" THEN [res |-> res, card |-> card]
    ELSE [res  |-> "Ok",
          card |-> [card EXCEPT
             !.balance = @ - amount,
             !.current_daily_spend = checked_add_or_max(@, amount),
             !.current_monthly_spend = checked_add_or_max(@, amount)]]

CardState_reset_daily(card, current_slot) ==
    [card EXCEPT !.current_daily_spend = 0,
                 !.last_reset_slot = current_slot]

CardState_reset_monthly(card, current_slot) ==
    [card EXCEPT !.current_monthly_spend = 0,
                 !.last_reset_slot = current_slot]

should_reset_daily(last_reset_slot, current_slot) ==
    saturating_sub(current_slot, last_reset_slot) >= SLOTS_PER_DAY

should_reset_monthly(last_reset_slot, current_slot) ==
    saturating_sub(current_slot, last_reset_slot) >= SLOTS_PER_MONTH

(***************************************************************************)
(* merchant-registry                                                       *)
(* A string is modelled by its length, the only thing the handlers read.   *)
(* An instruction returns [res, card], card being the pair of accounts     *)
(* [config, merchant] it leaves; merchant is None while the record's PDA   *)
(* does not exist.                                                         *)
(***************************************************************************)
MAX_MERCHANT_NAME_LEN == 64
MAX_VISA_MID_LEN == 16
MAX_METADATA_URI_LEN == 200
BLOCKED == 4

is_ascii_uppercase(b) == b >= 65 /\ b <= 90

\* u64::checked_sub
checked_sub(a, b) == IF a >= b THEN Some(a - b) ELSE None

\* u64::checked_add(1) of a count of records, which stays far below 2^64
checked_add(a, b) == Some(a + b)

initialize_registry(authority, clk) ==
    [authority |-> authority, total_merchants |-> 0, blocked_count |-> 0,
     last_updated |-> clk.unix_timestamp]

register_merchant(config, existing, authority, args, clk) ==
    LET old == [config |-> config, merchant |-> existing]
        Err(e) == [res |-> e, card |-> old, log |-> "-"] IN
    IF config.authority # authority THEN Err("Unauthorized")
    ELSE IF is_some(existing) THEN Err("AccountAlreadyInUse")
    ELSE IF ~(args.merchant_name <= MAX_MERCHANT_NAME_LEN)
      THEN Err("MerchantNameTooLong")
    ELSE IF ~(args.visa_mid <= MAX_VISA_MID_LEN) THEN Err("VisaMidTooLong")
    ELSE IF ~(args.risk_tier >= 1 /\ args.risk_tier <= 4)
      THEN Err("InvalidRiskTier")
    ELSE IF is_some(args.metadata_uri)
            /\ ~(args.metadata_uri.value <= MAX_METADATA_URI_LEN)
      THEN Err("MetadataUriTooLong")
    ELSE IF ~(is_ascii_uppercase(args.country_code[1])
              /\ is_ascii_uppercase(args.country_code[2]))
      THEN Err("InvalidCountryCode")
    ELSE
      LET merchant == [risk_tier |-> args.risk_tier, is_active |-> TRUE,
                       registered_at |-> clk.unix_timestamp,
                       updated_at |-> clk.unix_timestamp,
                       registered_by |-> authority,
                       metadata_uri |-> args.metadata_uri]
          total == checked_add(config.total_merchants, 1)
          blocked == IF args.risk_tier = 4
                     THEN checked_add(config.blocked_count, 1)
                     ELSE Some(config.blocked_count) IN
      IF is_none(total) \/ is_none(blocked) THEN Err("Panic")
      ELSE [res  |-> "Ok",
            card |-> [config   |-> [config EXCEPT
                                      !.total_merchants = total.value,
                                      !.last_updated = clk.unix_timestamp,
                                      !.blocked_count = blocked.value],
                      merchant |-> Some(merchant)],
            log  |-> <<args.risk_tier>>]

\* an update that takes one from blocked_count whenever the new tier is not 4
mutant_update_merchant(config, existing, authority, risk_tier, is_active, metadata_uri, clk) ==
    LET old == [config |-> config, merchant |-> existing]
        Err(e) == [res |-> e, card |-> old, log |-> "-"] IN
    IF config.authority # authority THEN Err("Unauthorized")
    ELSE IF is_none(existing) THEN Err("AccountNotInitialized")
    ELSE
      LET old_risk_tier == existing.value.risk_tier
          blocked ==
            IF is_none(risk_tier) THEN Some(config.blocked_count)
            ELSE IF risk_tier.value = 4 /\ old_risk_tier # 4
              THEN checked_add(config.blocked_count, 1)
            ELSE IF risk_tier.value # 4
              THEN checked_sub(config.blocked_count, 1)
            ELSE Some(config.blocked_count)
          merchant == [existing.value EXCEPT
             !.risk_tier = IF is_some(risk_tier) THEN risk_tier.value ELSE @,
             !.is_active = IF is_some(is_active) THEN is_active.value ELSE @,
             !.metadata_uri = IF is_some(metadata_uri) THEN metadata_uri ELSE @,
             !.updated_at = clk.unix_timestamp] IN
      IF is_some(risk_tier) /\ ~(risk_tier.value >= 1 /\ risk_tier.value <= 4)
        THEN Err("InvalidRiskTier")
      ELSE IF is_none(blocked) THEN Err("Panic")
      ELSE IF is_some(metadata_uri)
              /\ ~(metadata_uri.value <= MAX_METADATA_URI_LEN)
        THEN Err("MetadataUriTooLong")
      ELSE [res  |-> "Ok",
            card |-> [config   |-> [config EXCEPT
                                      !.blocked_count = blocked.value,
                                      !.last_updated = clk.unix_timestamp],
                      merchant |-> Some(merchant)],
            log  |-> <<old_risk_tier, merchant.risk_tier>>]

update_merchant(config, existing, authority, risk_tier, is_active, metadata_uri, clk) ==
    LET old == [config |-> config, merchant |-> existing]
        Err(e) == [res |-> e, card |-> old, log |-> "-"] IN
    IF config.authority # authority THEN Err("Unauthorized")
    ELSE IF is_none(existing) THEN Err("AccountNotInitialized")
    ELSE
      LET old_risk_tier == existing.value.risk_tier
          blocked ==
            IF is_none(risk_tier) THEN Some(config.blocked_count)
            ELSE IF risk_tier.value = 4 /\ old_risk_tier # 4
              THEN checked_add(config.blocked_count, 1)
            ELSE IF risk_tier.value # 4 /\ old_risk_tier = 4
              THEN checked_sub(config.blocked_count, 1)
            ELSE Some(config.blocked_count)
          merchant == [existing.value EXCEPT
             !.risk_tier = IF is_some(risk_tier) THEN risk_tier.value ELSE @,
             !.is_active = IF is_some(is_active) THEN is_active.value ELSE @,
             !.metadata_uri = IF is_some(metadata_uri) THEN metadata_uri ELSE @,
             !.updated_at = clk.unix_timestamp] IN
      IF is_some(risk_tier) /\ ~(risk_tier.value >= 1 /\ risk_tier.value <= 4)
        THEN Err("InvalidRiskTier")
      ELSE IF is_none(blocked) THEN Err("Panic")
      ELSE IF is_some(metadata_uri)
              /\ ~(metadata_uri.value <= MAX_METADATA_URI_LEN)
        THEN Err("MetadataUriTooLong")
      ELSE [res  |-> "Ok",
            card |-> [config   |-> [config EXCEPT
                                      !.blocked_count = blocked.value,
                                      !.last_updated = clk.unix_timestamp],
                      merchant |-> Some(merchant)],
            log  |-> <<old_risk_tier, merchant.risk_tier>>]

revoke_merchant(config, existing, authority, clk) ==
    LET old == [config |-> config, merchant |-> existing]
        Err(e) == [res |-> e, card |-> old, log |-> "-"] IN
    IF config.authority # authority THEN Err("Unauthorized")
    ELSE IF is_none(existing) THEN Err("AccountNotInitialized")
    ELSE IF ~(existing.value.risk_tier # BLOCKED)
      THEN Err("MerchantAlreadyBlocked")
    ELSE
      LET blocked == checked_add(config.blocked_count, 1) IN
      IF is_none(blocked) THEN Err("Panic")
      ELSE [res  |-> "Ok",
            card |-> [config   |-> [config EXCEPT
                                      !.blocked_count = blocked.value,
                                      !.last_updated = clk.unix_timestamp],
                      merchant |-> Some([existing.value EXCEPT
                                      !.risk_tier = BLOCKED,
                                      !.is_active = FALSE,
                                      !.updated_at = clk.unix_timestamp])],
            log  |-> <<existing.value.risk_tier, BLOCKED>>]

(***************************************************************************)
(* discard-state: the compressed DIDCommitmentState                        *)
(* A 32-byte hash is modelled by a small number.                           *)
(***************************************************************************)
\* store_did_commitment
store_did_commitment(commitment_hash, document_hash, recovery_threshold, current_slot) ==
    [commitment_hash |-> commitment_hash, document_hash |-> document_hash,
     verification_method_count |-> 1, recovery_threshold |-> recovery_threshold,
     active_guardians_count |-> 0, status |-> "Active",
     last_key_rotation_slot |-> 0, key_rotation_count |-> 0,
     created_at_slot |-> current_slot, updated_at_slot |-> current_slot]

\* key_rotation_count is a u32 and saturating_add(1) stops at 2^32 - 1, far
\* above the rotations explored
DID_rotate_key(did, new_commitment_hash, new_document_hash, current_slot) ==
    [did EXCEPT !.commitment_hash = new_commitment_hash,
                !.document_hash = new_document_hash,
                !.key_rotation_count = @ + 1,
                !.last_key_rotation_slot = current_slot,
                !.updated_at_slot = current_slot]

DID_suspend(did, current_slot) ==
    [did EXCEPT !.status = "Suspended", !.updated_at_slot = current_slot]

DID_revoke(did, current_slot) ==
    [did EXCEPT !.status = "Revoked", !.updated_at_slot = current_slot]

DID_reactivate(did, current_slot) ==
    IF ~(did.status = "Suspended")
    THEN [res |-> "CannotReactivate", card |-> did]
    ELSE [res  |-> "Ok",
          card |-> [did EXCEPT !.status = "Active",
                               !.updated_at_slot = current_slot]]

DID_update_guardian_count(did, count, current_slot) ==
    [did EXCEPT !.active_guardians_count = count,
                !.updated_at_slot = current_slot]

(***************************************************************************)
(* Inputs the model explores                                               *)
(***************************************************************************)
AmountInputs == {500, 600, 2000}
RecordAmountInputs == {500, 600}

ScenarioLimits ==
    [per_transaction |-> 1000, daily |-> 1000, weekly |-> 1100, monthly |-> 1700,
     max_daily_transactions |-> 1, max_weekly_transactions |-> 1,
     max_monthly_transactions |-> 1]

\* velocity::conservative_limits()
conservative_limits ==
    [per_transaction |-> 50000, daily |-> 100000, weekly |-> 250000,
     monthly |-> 500000,
     max_daily_transactions |-> 10, max_weekly_transactions |-> 30,
     max_monthly_transactions |-> 100]

LimitInputs == {ScenarioLimits, conservative_limits}

FreezeReasonInputs == {"FraudDetected", "UserRequest"}

\* The 64-byte ElGamal ciphertext at the head of a proof blob, named by the
\* amount it encrypts; the program never decrypts it.
Ciphertext(amount) == [enc |-> amount]

\* Proof blobs: one byte short of a ciphertext, and well-formed blobs for an
\* amount within the default daily limit, for one that with the first passes
\* it, for one above it, and for the amount 0.
ProofInputs ==
    {[len |-> 63, head |-> Ciphertext(300000000)],
     [len |-> 96, head |-> Ciphertext(300000000)],
     [len |-> 96, head |-> Ciphertext(400000000)],
     [len |-> 96, head |-> Ciphertext(600000000)],
     [len |-> 64, head |-> Ciphertext(0)]}

\* The GlobalConfig account as deployed: no instruction under src/ creates it
\* or edits its authority lists.
InitialGlobalConfig ==
    [admin |-> "admin", is_paused |-> FALSE,
     reset_authorities |-> <<"cron">>, fraud_authorities |-> <<"fraud">>,
     default_velocity_limits |-> DefaultLimits,
     created_at |-> 0, updated_at |-> 0]

InitialClock == [slot |-> 0, unix_timestamp |-> 0]

NoCall == [op |-> "initialize_card_config", authority |-> "owner", amount |-> 0,
           result |-> "Ok", log |-> "-"]

Call(op, authority, amount, result, log) ==
    [op |-> op, authority |-> authority, amount |-> amount,
     result |-> result, log |-> log]

\* the outcome of a confidential transfer hook call on one proof blob
ProofCall(op, proof_data, result) ==
    [op |-> op, authority |-> "-", amount |-> 0, result |-> result, log |-> "-",
     proof_data |-> proof_data]

\* the outcome of a read-only check of one request
Request(op, amount, merchant_id, mcc_code, result) ==
    [op |-> op, authority |-> "-", amount |-> amount, result |-> result,
     log |-> "-", merchant_id |-> merchant_id, mcc_code |-> mcc_code]

\* a policy other than the default one
RestrictedPolicy ==
    [require_biometric |-> TRUE, require_2fa_above |-> Some(5000),
     allow_international |-> FALSE, allow_online |-> TRUE, allow_atm |-> FALSE,
     allow_contactless |-> TRUE, contactless_limit |-> 2500,
     allowed_countries |-> <<840>>, blocked_countries |-> <<>>]

\* Merchant ids and MCC codes the list instructions are given: one entry, a
\* batch that fills the list exactly, and a batch one entry longer.
Batch(n) == [i \in 1..n |-> i]
MccBatch(n) == [i \in 1..n |-> IF i = 1 THEN 5411 ELSE i]
MerchantAddInputs == {<<1>>, Batch(MAX_MERCHANTS), Batch(MAX_MERCHANTS + 1)}
MerchantRemoveInputs == {Batch(MAX_MERCHANTS)}
MccAddInputs == {<<5411>>, <<0>>, MccBatch(MAX_MCC_CODES), MccBatch(MAX_MCC_CODES + 1)}
MccRemoveInputs == {MccBatch(MAX_MCC_CODES)}
\* Batches for the list edits on short lists: empty, one entry, an entry
\* repeated, an invalid MCC after a valid one, and a batch longer than the
\* list's capacity.
EditMerchantAdds == {<<>>, <<1>>, <<2, 1, 2>>, Batch(MAX_MERCHANTS + 1)}
EditMerchantRemoves == {<<>>, <<1>>, <<2, 2>>}
EditMccAdds == {<<>>, <<5411>>, <<5812, 0>>, <<5812, 5411, 10000>>,
                <<5812, 5411, 5812>>, MccBatch(MAX_MCC_CODES + 1)}
EditMccRemoves == {<<>>, <<5411>>, <<5812, 5812>>}
MerchantRequests == {None, Some(1), Some(2)}
MccRequests == {None, Some(5411), Some(5812)}
RequestAmounts == {500, 2000}

\* Full-width inputs: the amounts 1, 2^63 and 2^64 - 1, and limits and card
\* records with their u64 fields as limbs.
MaxRecords == 2
U64Amounts == {U64(1), <<0, 0, 0, LIMB \div 2>>, U64_MAX}

U64Limits(limits) ==
    [limits EXCEPT !.per_transaction = U64(@), !.daily = U64(@),
                   !.weekly = U64(@), !.monthly = U64(@)]

\* The record initialize_card_config writes (monthly limit 10000000000), and
\* the same card after `used` calls of record_transaction(1) in the slot of
\* its creation.
U64Card(used) ==
    [initialize_card_config("card", to_bytes("owner"), InitialClock) EXCEPT
        !.velocity_limits = [U64Limits(@) EXCEPT !.monthly = <<58368, 21515, 2, 0>>],
        !.velocity_counters =
            [@ EXCEPT !.daily_total = U64(used), !.weekly_total = U64(used),
                      !.monthly_total = U64(used),
                      !.daily_transaction_count = used,
                      !.weekly_transaction_count = used,
                      !.monthly_transaction_count = used],
        !.last_transaction_at = IF used = 0 THEN None
                                ELSE Some(InitialClock.unix_timestamp)]

\* The calls of a full-width behaviour carry the build it runs
\* (overflow_checks) and the record_transaction calls that returned Ok so
\* far: their number n and the exact sum of their amounts (carry * 2^64 +
\* value); made counts the calls made since Init.
NoCallU64(overflow_checks, used) ==
    [op |-> "initialize_card_config", authority |-> "owner", amount |-> U64(0),
     result |-> "Ok", log |-> "-", overflow_checks |-> overflow_checks,
     sum |-> [carry |-> 0, value |-> U64(used)], n |-> used, made |-> 0]

\* an instruction whose error keeps what the handler wrote before it
mutant_Commit(old, out) == out.card

\* An instruction that returns an error changes no account.
Commit(old, out) == IF out.res = "Ok" THEN out.card ELSE old

\* a limit of new is below the one of old
Lowered(old, new) ==
    \/ new.per_transaction < old.per_transaction
    \/ new.daily < old.daily
    \/ new.weekly < old.weekly
    \/ new.monthly < old.monthly
    \/ new.max_daily_transactions < old.max_daily_transactions
    \/ new.max_weekly_transactions < old.max_weekly_transactions
    \/ new.max_monthly_transactions < old.max_monthly_transactions

Init ==
    /\ clock = InitialClock
    /\ global_config = InitialGlobalConfig
    /\ card_config = initialize_card_config("card", to_bytes("owner"), InitialClock)
    /\ last = NoCall
    /\ limit_lowered = FALSE

(***************************************************************************)
(* Instructions                                                            *)
(***************************************************************************)
Tick ==
    /\ clock.unix_timestamp < MaxTicks
    /\ clock' = [slot |-> clock.slot + SLOTS_PER_DAY,
                 unix_timestamp |-> clock.unix_timestamp + 1]
    /\ last' = Call("tick", "-", 0, "Ok", "-")
    /\ UNCHANGED <<card_config, global_config, limit_lowered>>

TransferHook(amount) ==
    LET out == handler(card_config, amount) IN
    /\ card_config' = Commit(card_config, out)
    /\ last' = Call("transfer_hook", "-", amount, out.res, "-")
    /\ UNCHANGED <<global_config, clock, limit_lowered>>

ConfidentialTransferHook(proof_data) ==
    LET out == confidential_handler(card_config, proof_data) IN
    /\ card_config' = Commit(card_config, out)
    /\ last' = ProofCall("confidential_transfer_hook", proof_data, out.res)
    /\ UNCHANGED <<global_config, clock, limit_lowered>>

\* RecordTransaction has no signer and no constraint: any caller, any amount.
RecordTransaction(amount) ==
    LET c   == card_config.velocity_counters
        out == record_transaction(card_config, amount, None, None, clock) IN
    /\ c.daily_transaction_count < MaxTx
    /\ c.weekly_transaction_count < MaxTx
    /\ c.monthly_transaction_count < MaxTx
    /\ card_config' = Commit(card_config, out)
    /\ last' = Call("record_transaction", "-", amount, out.res, "-")
    /\ limit_lowered' = FALSE
    /\ UNCHANGED <<global_config, clock>>

UpdateVelocityLimits(authority, limits) ==
    LET out == IF card_config.owner_did_hash = authority_did_hash(authority)
               THEN update_limits(card_config, limits, clock)
               ELSE [res |-> "Unauthorized", card |-> card_config] IN
    /\ card_config' = Commit(card_config, out)
    /\ last' = Call("update_velocity_limits", authority, 0, out.res, "-")
    /\ limit_lowered' = (limit_lowered
                         \/ (out.res = "Ok"
                             /\ Lowered(card_config.velocity_limits, limits)))
    /\ UNCHANGED <<global_config, clock>>

ResetVelocity(authority, kind) ==
    LET out == IF ~is_authorized_reset_authority(global_config, authority)
                 THEN [res |-> "Unauthorized", card |-> card_config]
               ELSE IF kind = "daily" THEN reset_daily(card_config, clock)
               ELSE IF kind = "weekly" THEN reset_weekly(card_config, clock)
               ELSE reset_monthly(card_config, clock) IN
    /\ card_config' = Commit(card_config, out)
    /\ last' = Call("reset_" \o kind \o "_velocity", authority, 0, out.res, "-")
    /\ UNCHANGED <<global_config, clock, limit_lowered>>

EmergencyFreeze(authority, reason) ==
    LET out == freeze(card_config, global_config, authority, reason, clock) IN
    /\ card_config' = Commit(card_config, out)
    /\ last' = Call("emergency_freeze", authority, 0, out.res, out.log)
    /\ UNCHANGED <<global_config, clock, limit_lowered>>

Unfreeze(authority) ==
    LET out == unfreeze(card_config, global_config, authority, clock) IN
    /\ card_config' = Commit(card_config, out)
    /\ last' = Call("unfreeze", authority, 0, out.res, out.log)
    /\ UNCHANGED <<global_config, clock, limit_lowered>>

mutant_GlobalPause(admin) ==
    LET out == global_pause(global_config, clock) IN
    /\ global_config' = (IF out.res = "Ok" THEN out.global ELSE global_config)
    /\ last' = Call("global_pause", admin, 0, out.res, "-")
    /\ UNCHANGED <<card_config, clock, limit_lowered>>

GlobalPause(admin) ==
    LET out == IF global_config.admin = admin
               THEN global_pause(global_config, clock)
               ELSE [res |-> "Unauthorized", global |-> global_config] IN
    /\ global_config' = (IF out.res = "Ok" THEN out.global ELSE global_config)
    /\ last' = Call("global_pause", admin, 0, out.res, "-")
    /\ UNCHANGED <<card_config, clock, limit_lowered>>

GlobalResume(admin) ==
    LET out == IF global_config.admin = admin
               THEN global_resume(global_config, clock)
               ELSE [res |-> "Unauthorized", global |-> global_config] IN
    /\ global_config' = (IF out.res = "Ok" THEN out.global ELSE global_config)
    /\ last' = Call("global_resume", admin, 0, out.res, "-")
    /\ UNCHANGED <<card_config, clock, limit_lowered>>

\* The read-only check of a request that may name a merchant and an MCC.
ValidateTransaction(amount, merchant_id, mcc_code) ==
    LET res == validate_transaction(card_config, amount, merchant_id, mcc_code) IN
    /\ last' = Request("validate_transaction", amount, merchant_id, mcc_code, res)
    /\ UNCHANGED <<card_config, global_config, clock, limit_lowered>>

\* The constraint of UpdateMerchantList and UpdateMccList: the signer's key
\* must equal the card's owner_did_hash.
OwnerOnly(authority, out) ==
    IF card_config.owner_did_hash = authority_did_hash(authority)
    THEN out ELSE [res |-> "Unauthorized", card |-> card_config]

AddMerchantsToWhitelist(authority, merchants) ==
    LET out == OwnerOnly(authority,
                  merchant_add_to_whitelist(card_config, merchants, clock)) IN
    /\ card_config' = Commit(card_config, out)
    /\ last' = Call("add_merchants_to_whitelist", authority, 0, out.res, "-")
    /\ UNCHANGED <<global_config, clock, limit_lowered>>

RemoveMerchantsFromWhitelist(authority, merchants) ==
    LET out == OwnerOnly(authority,
                  merchant_remove_from_whitelist(card_config, merchants, clock)) IN
    /\ card_config' = Commit(card_config, out)
    /\ last' = Call("remove_merchants_from_whitelist", authority, 0, out.res, "-")
    /\ UNCHANGED <<global_config, clock, limit_lowered>>

AddMerchantsToBlocklist(authority, merchants) ==
    LET out == OwnerOnly(authority,
                  merchant_add_to_blocklist(card_config, merchants, clock)) IN
    /\ card_config' = Commit(card_config, out)
    /\ last' = Call("add_merchants_to_blocklist", authority, 0, out.res, "-")
    /\ UNCHANGED <<global_config, clock, limit_lowered>>

RemoveMerchantsFromBlocklist(authority, merchants) ==
    LET out == OwnerOnly(authority,
                  merchant_remove_from_blocklist(card_config, merchants, clock)) IN
    /\ card_config' = Commit(card_config, out)
    /\ last' = Call("remove_merchants_from_blocklist", authority, 0, out.res, "-")
    /\ UNCHANGED <<global_config, clock, limit_lowered>>

AddMccCodesToWhitelist(authority, mcc_codes) ==
    LET out == OwnerOnly(authority,
                  mcc_add_to_whitelist(card_config, mcc_codes, clock)) IN
    /\ card_config' = Commit(card_config, out)
    /\ last' = Call("add_mcc_codes_to_whitelist", authority, 0, out.res, "-")
    /\ UNCHANGED <<global_config, clock, limit_lowered>>

RemoveMccCodesFromWhitelist(authority, mcc_codes) ==
    LET out == OwnerOnly(authority,
                  mcc_remove_from_whitelist(card_config, mcc_codes, clock)) IN
    /\ card_config' = Commit(card_config, out)
    /\ last' = Call("remove_mcc_codes_from_whitelist", authority, 0, out.res, "-")
    /\ UNCHANGED <<global_config, clock, limit_lowered>>

AddMccCodesToBlocklist(authority, mcc_codes) ==
    LET out == OwnerOnly(authority,
                  mcc_add_to_blocklist(card_config, mcc_codes, clock)) IN
    /\ card_config' = Commit(card_config, out)
    /\ last' = Call("add_mcc_codes_to_blocklist", authority, 0, out.res, "-")
    /\ UNCHANGED <<global_config, clock, limit_lowered>>

RemoveMccCodesFromBlocklist(authority, mcc_codes) ==
    LET out == OwnerOnly(authority,
                  mcc_remove_from_blocklist(card_config, mcc_codes, clock)) IN
    /\ card_config' = Commit(card_config, out)
    /\ last' = Call("remove_mcc_codes_from_blocklist", authority, 0, out.res, "-")
    /\ UNCHANGED <<global_config, clock, limit_lowered>>

\* The init constraint of InitializeCardConfig creates the account at the
\* card's address through the system program, which refuses an address that
\* already holds an account; the handler runs only on a fresh account.
init_card_config(existing) ==
    IF is_some(existing) THEN "AccountAlreadyInUse" ELSE "Ok"

\* One card is modelled and its account exists from Init on, so every call
\* here is a second initialization of the same card_id.
InitializeCardConfig(owner) ==
    LET out == IF init_card_config(Some(card_config)) # "Ok"
               THEN [res  |-> init_card_config(Some(card_config)),
                     card |-> card_config]
               ELSE [res  |-> "Ok",
                     card |-> initialize_card_config("card", to_bytes(owner), clock)] IN
    /\ card_config' = Commit(card_config, out)
    /\ last' = Call("initialize_card_config", owner, 0, out.res, "-")
    /\ UNCHANGED <<global_config, clock, limit_lowered>>

UpdateCardPolicy(authority, new_policy) ==
    LET out == OwnerOnly(authority,
                  update_card_policy(card_config, new_policy, clock)) IN
    /\ card_config' = Commit(card_config, out)
    /\ last' = Call("update_card_policy", authority, 0, out.res, "-")
    /\ UNCHANGED <<global_config, clock, limit_lowered>>

\* The instructions at full width.
TransferHookU64(amount) ==
    LET out == handler_u64(card_config, amount, last.overflow_checks) IN
    /\ card_config' = Commit(card_config, out)
    /\ last' = [last EXCEPT !.op = "transfer_hook", !.authority = "-",
                            !.amount = amount, !.result = out.res]
    /\ UNCHANGED <<global_config, clock, limit_lowered>>

RecordTransactionU64(amount) ==
    LET out == record_transaction_u64(card_config, amount, None, None, clock,
                                      last.overflow_checks)
        sum == overflowing_add(last.sum.value, amount) IN
    /\ last.made < MaxRecords
    /\ card_config' = Commit(card_config, out)
    /\ last' = [last EXCEPT
                  !.op = "record_transaction", !.authority = "-",
                  !.amount = amount, !.result = out.res,
                  !.sum = IF out.res # "Ok" THEN @
                          ELSE [carry |-> @.carry + (IF sum.overflow THEN 1 ELSE 0),
                                value |-> sum.value],
                  !.n = IF out.res # "Ok" THEN @ ELSE @ + 1,
                  !.made = @ + 1]
    /\ UNCHANGED <<global_config, clock, limit_lowered>>

UpdateVelocityLimitsU64(authority, limits) ==
    LET out == IF card_config.owner_did_hash = authority_did_hash(authority)
               THEN update_limits(card_config, limits, clock)
               ELSE [res |-> "Unauthorized", card |-> card_config] IN
    /\ card_config' = Commit(card_config, out)
    /\ last' = [last EXCEPT !.op = "update_velocity_limits",
                            !.authority = authority,
                            !.amount = U64(0), !.result = out.res]
    /\ UNCHANGED <<global_config, clock, limit_lowered>>

(***************************************************************************)
(* Specifications.  Each one runs the instructions of one part of the      *)
(* program from the state initialize_card_config leaves.                   *)
(***************************************************************************)
EmergencyAuthorities == {"owner", "admin", "fraud", "other"}
AdminInputs == {"admin", "other"}
OwnerInputs == {"owner", "other"}
ResetAuthorities == {"admin", "cron", "other"}

\* Card lifecycle, emergency controls and the two authorization paths.
Next ==
    \/ Tick
    \/ \E amount \in AmountInputs : TransferHook(amount)
    \/ \E proof_data \in ProofInputs : ConfidentialTransferHook(proof_data)
    \/ \E amount \in RecordAmountInputs : RecordTransaction(amount)
    \/ \E authority \in EmergencyAuthorities, reason \in FreezeReasonInputs :
          EmergencyFreeze(authority, reason)
    \/ \E authority \in EmergencyAuthorities : Unfreeze(authority)
    \/ \E admin \in AdminInputs : GlobalPause(admin)
    \/ \E admin \in AdminInputs : GlobalResume(admin)

Spec == Init /\ [][Next]_vars

\* Velocity limits and counters.
NextVelocity ==
    \/ Tick
    \/ \E amount \in AmountInputs : TransferHook(amount)
    \/ \E proof_data \in ProofInputs : ConfidentialTransferHook(proof_data)
    \/ \E amount \in RecordAmountInputs : RecordTransaction(amount)
    \/ \E authority \in OwnerInputs, limits \in LimitInputs :
          UpdateVelocityLimits(authority, limits)
    \/ \E authority \in ResetAuthorities, kind \in {"daily", "weekly", "monthly"} :
          ResetVelocity(authority, kind)

SpecVelocity == Init /\ [][NextVelocity]_vars

\* Merchant and MCC lists, and the decision on requests that name a merchant
\* and an MCC.
NextLists ==
    \/ \E amount \in RequestAmounts, merchant_id \in MerchantRequests,
          mcc_code \in MccRequests :
          ValidateTransaction(amount, merchant_id, mcc_code)
    \/ \E authority \in OwnerInputs, merchants \in MerchantAddInputs :
          AddMerchantsToWhitelist(authority, merchants)
    \/ \E authority \in OwnerInputs, merchants \in MerchantRemoveInputs :
          RemoveMerchantsFromWhitelist(authority, merchants)
    \/ \E authority \in OwnerInputs, merchants \in MerchantAddInputs :
          AddMerchantsToBlocklist(authority, merchants)
    \/ \E authority \in OwnerInputs, merchants \in MerchantRemoveInputs :
          RemoveMerchantsFromBlocklist(authority, merchants)
    \/ \E authority \in OwnerInputs, mcc_codes \in MccAddInputs :
          AddMccCodesToWhitelist(authority, mcc_codes)
    \/ \E authority \in OwnerInputs, mcc_codes \in MccRemoveInputs :
          RemoveMccCodesFromWhitelist(authority, mcc_codes)
    \/ \E authority \in OwnerInputs, mcc_codes \in MccAddInputs :
          AddMccCodesToBlocklist(authority, mcc_codes)
    \/ \E authority \in OwnerInputs, mcc_codes \in MccRemoveInputs :
          RemoveMccCodesFromBlocklist(authority, mcc_codes)

SpecLists == Init /\ [][NextLists]_vars

\* The decision on requests that name a merchant and an MCC, on cards the
\* owner freezes, gives lower limits and block lists, with recorded spending.
NextAuthorize ==
    \/ \E amount \in RequestAmounts, merchant_id \in MerchantRequests,
          mcc_code \in MccRequests :
          ValidateTransaction(amount, merchant_id, mcc_code)
    \/ AddMerchantsToBlocklist("owner", <<1>>)
    \/ AddMccCodesToBlocklist("owner", <<5411>>)
    \/ EmergencyFreeze("owner", "UserRequest")
    \/ Unfreeze("owner")
    \/ UpdateVelocityLimits("owner", ScenarioLimits)
    \/ RecordTransaction(600)

SpecAuthorize == Init /\ [][NextAuthorize]_vars

\* The confidential path on a card record whose confidential_mode is true
\* (no instruction under src/ assigns the field; the account layout admits
\* the value), with the emergency controls.
InitConfidential ==
    /\ clock = InitialClock
    /\ global_config = InitialGlobalConfig
    /\ card_config = [initialize_card_config("card", to_bytes("owner"), InitialClock)
                         EXCEPT !.confidential_mode = TRUE]
    /\ last = NoCall
    /\ limit_lowered = FALSE

NextConfidential ==
    \/ Tick
    \/ \E proof_data \in ProofInputs : ConfidentialTransferHook(proof_data)
    \/ \E authority \in EmergencyAuthorities, reason \in FreezeReasonInputs :
          EmergencyFreeze(authority, reason)
    \/ \E authority \in EmergencyAuthorities : Unfreeze(authority)

SpecConfidential == InitConfidential /\ [][NextConfidential]_vars

\* The same instructions from a card record holding any status of the
\* CardStatus type (no instruction under src/ assigns Pending, Paused or
\* Terminated; the type and the account layout admit them).
InitAnyStatus ==
    /\ clock = InitialClock
    /\ global_config = InitialGlobalConfig
    /\ \E status \in CardStatus \ {"Frozen"} :
          card_config = [initialize_card_config("card", to_bytes("owner"), InitialClock)
                            EXCEPT !.status = status]
    /\ last = NoCall
    /\ limit_lowered = FALSE

SpecAnyStatus == InitAnyStatus /\ [][Next]_vars

\* A card that is used, frozen and given other limits and list entries, and
\* initialized again.
NextLifecycle ==
    \/ Tick
    \/ \E owner \in OwnerInputs : InitializeCardConfig(owner)
    \/ \E amount \in RecordAmountInputs : RecordTransaction(amount)
    \/ \E authority \in OwnerInputs, reason \in FreezeReasonInputs :
          EmergencyFreeze(authority, reason)
    \/ \E authority \in OwnerInputs : Unfreeze(authority)
    \/ UpdateVelocityLimits("owner", ScenarioLimits)
    \/ AddMerchantsToBlocklist("owner", <<1>>)

SpecLifecycle == Init /\ [][NextLifecycle]_vars

\* The velocity arithmetic at full width, under either build, from a new
\* card and from a card with 65535 recorded transactions.
InitOverflow ==
    /\ clock = InitialClock
    /\ global_config = InitialGlobalConfig
    /\ \E overflow_checks \in BOOLEAN, used \in {0, U16_MAX} :
          /\ card_config = U64Card(used)
          /\ last = NoCallU64(overflow_checks, used)
    /\ limit_lowered = FALSE

NextOverflow ==
    \/ \E amount \in U64Amounts : TransferHookU64(amount)
    \/ \E amount \in U64Amounts : RecordTransactionU64(amount)
    \/ \E authority \in OwnerInputs :
          UpdateVelocityLimitsU64(authority, U64Limits(ScenarioLimits))

SpecOverflow == InitOverflow /\ [][NextOverflow]_vars

\* The emergency controls with every FreezeReason.
NextEmergency ==
    \/ Tick
    \/ \E authority \in EmergencyAuthorities, reason \in FreezeReason :
          EmergencyFreeze(authority, reason)
    \/ \E authority \in EmergencyAuthorities : Unfreeze(authority)

SpecEmergency == Init /\ [][NextEmergency]_vars

\* The owner's edits of the four lists, on short lists.
NextListEdits ==
    \/ \E merchants \in EditMerchantAdds : AddMerchantsToWhitelist("owner", merchants)
    \/ \E merchants \in EditMerchantRemoves :
          RemoveMerchantsFromWhitelist("owner", merchants)
    \/ \E merchants \in EditMerchantAdds : AddMerchantsToBlocklist("owner", merchants)
    \/ \E merchants \in EditMerchantRemoves :
          RemoveMerchantsFromBlocklist("owner", merchants)
    \/ \E mcc_codes \in EditMccAdds : AddMccCodesToWhitelist("owner", mcc_codes)
    \/ \E mcc_codes \in EditMccRemoves : RemoveMccCodesFromWhitelist("owner", mcc_codes)
    \/ \E mcc_codes \in EditMccAdds : AddMccCodesToBlocklist("owner", mcc_codes)
    \/ \E mcc_codes \in EditMccRemoves : RemoveMccCodesFromBlocklist("owner", mcc_codes)

SpecListEdits == Init /\ [][NextListEdits]_vars

\* Every instruction of the program but the list edits of SpecLists and
\* SpecListEdits, each with one or two inputs, at the slot of the card's
\* creation.
NextProgram ==
    \/ TransferHook(500)
    \/ \E proof_data \in {[len |-> 63, head |-> Ciphertext(300000000)],
                          [len |-> 96, head |-> Ciphertext(300000000)]} :
          ConfidentialTransferHook(proof_data)
    \/ InitializeCardConfig("owner")
    \/ \E authority \in OwnerInputs : UpdateCardPolicy(authority, RestrictedPolicy)
    \/ UpdateVelocityLimits("owner", ScenarioLimits)
    \/ RecordTransaction(500)
    \/ \E kind \in {"daily", "weekly", "monthly"} : ResetVelocity("cron", kind)
    \/ EmergencyFreeze("fraud", "FraudDetected")
    \/ Unfreeze("owner")
    \/ GlobalPause("admin")
    \/ GlobalResume("admin")

SpecProgram == Init /\ [][NextProgram]_vars

\* The window resets on a card in confidential mode: confidential transfers,
\* recorded transactions (with the lazy reset) and the explicit resets.
NextConfidentialResets ==
    \/ Tick
    \/ \E proof_data \in ProofInputs : ConfidentialTransferHook(proof_data)
    \/ RecordTransaction(500)
    \/ \E authority \in {"cron", "other"}, kind \in {"daily", "weekly", "monthly"} :
          ResetVelocity(authority, kind)

SpecConfidentialResets == InitConfidential /\ [][NextConfidentialResets]_vars

(***************************************************************************)
(* Properties                                                              *)
(***************************************************************************)
AuthorizationOps == {"transfer_hook", "confidential_transfer_hook"}
EmergencyOps == {"emergency_freeze", "unfreeze"}

Totals(card) ==
    <<card.velocity_counters.daily_total, card.velocity_counters.weekly_total,
      card.velocity_counters.monthly_total>>
Counts(card) ==
    <<card.velocity_counters.daily_transaction_count,
      card.velocity_counters.weekly_transaction_count,
      card.velocity_counters.monthly_transaction_count>>
EncryptedTotals(card) ==
    <<card.encrypted_daily_total, card.encrypted_weekly_total,
      card.encrypted_monthly_total>>

\* C1: while is_paused is true every authorization attempt, plaintext or
\* confidential, is denied with GloballyPaused, whatever the card's state.
C1_PausedDeniesEveryAttempt ==
    (global_config.is_paused /\ last.op \in AuthorizationOps)
        => last.result = "GloballyPaused"

\* The order of checks the specification gives for authorize: the reason of
\* the earliest violated rule, each rule with the error the program names it.
SpecifiedDecision(g, card, amount, merchant_id, mcc_code) ==
    IF g.is_paused THEN "GloballyPaused"
    ELSE IF card.status # "Active" THEN "CardNotActive"
    ELSE IF is_some(card.freeze_info) THEN "CardFrozen"
    ELSE IF card.merchant_whitelist_enabled /\ is_some(merchant_id)
            /\ ~contains(card.merchant_whitelist, merchant_id.value)
      THEN "MerchantNotWhitelisted"
    ELSE IF is_some(merchant_id) /\ contains(card.merchant_blocklist, merchant_id.value)
      THEN "MerchantBlocked"
    ELSE IF card.mcc_whitelist_enabled /\ is_some(mcc_code)
            /\ ~contains(card.mcc_whitelist, mcc_code.value)
      THEN "MccNotWhitelisted"
    ELSE IF is_some(mcc_code) /\ contains(card.mcc_blocklist, mcc_code.value)
      THEN "MccBlocked"
    ELSE IF amount > card.velocity_limits.per_transaction
      THEN "TransactionLimitExceeded"
    ELSE IF card.velocity_counters.daily_total + amount > card.velocity_limits.daily
      THEN "DailyLimitExceeded"
    ELSE IF card.velocity_counters.weekly_total + amount > card.velocity_limits.weekly
      THEN "WeeklyLimitExceeded"
    ELSE IF card.velocity_counters.monthly_total + amount > card.velocity_limits.monthly
      THEN "MonthlyLimitExceeded"
    ELSE "Ok"

\* C2: the decision of the plaintext authorization is the reason of the
\* earliest violated rule in the order global pause, status, freeze, merchant
\* whitelist, merchant blocklist, MCC whitelist, MCC blocklist,
\* per-transaction, daily, weekly, monthly.
C2_EarliestViolatedRuleWins ==
    last.op = "transfer_hook"
        => last.result = SpecifiedDecision(global_config, card_config,
                                           last.amount, None, None)

\* C3: a denied authorization, plaintext or confidential, leaves the whole
\* card record as it was; with daily limit 1000 and daily_total 600 an
\* attempt of 500 is denied with DailyLimitExceeded and daily_total stays 600.
C3_DenialLeavesRecordUnchanged ==
    /\ \A amount \in AmountInputs :
          LET out == handler(card_config, amount)
          IN  out.res # "Ok" => out.card = card_config
    /\ \A proof_data \in ProofInputs :
          LET out == confidential_handler(card_config, proof_data)
          IN  out.res # "Ok" => out.card = card_config
    /\ (/\ card_config.status = "Active"
        /\ is_none(card_config.freeze_info)
        /\ card_config.velocity_limits.per_transaction >= 500
        /\ card_config.velocity_limits.daily = 1000
        /\ card_config.velocity_counters.daily_total = 600)
          => LET out == handler(card_config, 500)
             IN  /\ out.res = "DailyLimitExceeded"
                 /\ out.card.velocity_counters.daily_total = 600

C3_Witness ==
    /\ last.op = "transfer_hook"
    /\ last.amount = 500
    /\ last.result = "DailyLimitExceeded"
    /\ card_config.velocity_limits.daily = 1000
    /\ card_config.velocity_counters.daily_total = 600

\* C4: while no limit has been lowered since the last recorded transaction,
\* each total is at most its limit and each transaction count at most its
\* maximum.
C4_TotalsAndCountsWithinLimits ==
    ~limit_lowered =>
        LET c == card_config.velocity_counters
            l == card_config.velocity_limits
        IN  /\ c.daily_total <= l.daily
            /\ c.weekly_total <= l.weekly
            /\ c.monthly_total <= l.monthly
            /\ c.daily_transaction_count <= l.max_daily_transactions
            /\ c.weekly_transaction_count <= l.max_weekly_transactions
            /\ c.monthly_transaction_count <= l.max_monthly_transactions

\* C5: decision and recording are one atomic step, so the check of a second
\* attempt sees the counters increased by the first approved one: two
\* attempts approved one after the other fit the daily limit together.
C5_SecondCheckSeesFirstApproval ==
    [][(/\ last.op = "transfer_hook" /\ last.result = "Ok"
        /\ last'.op = "transfer_hook" /\ last'.result = "Ok")
         => card_config'.velocity_counters.daily_total + last.amount + last'.amount
               <= card_config'.velocity_limits.daily]_vars

\* C6: from a freeze until the unfreeze that lifts it every authorization
\* attempt is denied and no transaction is recorded: totals, counts and
\* encrypted totals do not increase.
C6_FreezeHoldsUntilLifted ==
    [][(is_some(card_config.freeze_info) /\ is_some(card_config'.freeze_info))
         => /\ last'.op \in AuthorizationOps => last'.result # "Ok"
            /\ \A i \in 1..3 : Totals(card_config')[i] <= Totals(card_config)[i]
            /\ \A i \in 1..3 : Counts(card_config')[i] <= Counts(card_config)[i]
            /\ EncryptedTotals(card_config') = EncryptedTotals(card_config)]_vars

EmergencyAuthorized(g, card, authority) ==
    \/ to_bytes(authority) = card.owner_did_hash
    \/ authority = g.admin
    \/ contains(g.fraud_authorities, authority)

C8_FrozenIffFreezeInfo ==
    (card_config.status = "Frozen") <=> is_some(card_config.freeze_info)

C8_Witness ==
    /\ last.op = "emergency_freeze"
    /\ last.result = "Ok"
    /\ card_config.status = "Frozen"

ClockAfter(clk, n) ==
    [slot |-> clk.slot + n * SLOTS_PER_DAY, unix_timestamp |-> clk.unix_timestamp + n]

\* C10: a freeze by an authorized actor followed by an unfreeze by an
\* authorized actor yields status Active and no freeze_info, with policy,
\* limits, counters and lists as they were before the freeze.
C10_FreezeThenUnfreezeRestores ==
    \A a1 \in EmergencyAuthorities, a2 \in EmergencyAuthorities,
       reason \in FreezeReason, n \in 0..1 :
       (/\ EmergencyAuthorized(global_config, card_config, a1)
        /\ EmergencyAuthorized(global_config, card_config, a2))
         => LET frozen == freeze(card_config, global_config, a1, reason, clock)
                lifted == unfreeze(frozen.card, global_config, a2,
                                   ClockAfter(clock, n))
            IN  /\ frozen.res = "Ok" /\ lifted.res = "Ok"
                /\ lifted.card.status = "Active"
                /\ lifted.card.freeze_info = None
                /\ lifted.card.policy = card_config.policy
                /\ lifted.card.velocity_limits = card_config.velocity_limits
                /\ lifted.card.velocity_counters = card_config.velocity_counters
                /\ lifted.card.merchant_whitelist_enabled
                      = card_config.merchant_whitelist_enabled
                /\ lifted.card.merchant_whitelist = card_config.merchant_whitelist
                /\ lifted.card.merchant_blocklist = card_config.merchant_blocklist
                /\ lifted.card.mcc_whitelist_enabled = card_config.mcc_whitelist_enabled
                /\ lifted.card.mcc_whitelist = card_config.mcc_whitelist
                /\ lifted.card.mcc_blocklist = card_config.mcc_blocklist

C10_Witness ==
    /\ last.op = "unfreeze"
    /\ last.log = "Card unfrozen successfully"
    /\ card_config.status = "Active"
    /\ is_none(card_config.freeze_info)
    /\ card_config.velocity_counters.daily_total > 0

\* C11: unfreeze by an authorized actor on a card without freeze_info returns
\* Ok and changes nothing: status (Pending, Active, Paused or Terminated),
\* freeze_info, updated_at and the rest of the record stay as they were.
C11_UnfreezeWithoutFreezeIsNoOp ==
    /\ \A authority \in EmergencyAuthorities :
          (/\ EmergencyAuthorized(global_config, card_config, authority)
           /\ is_none(card_config.freeze_info))
            => LET out == unfreeze(card_config, global_config, authority, clock)
               IN  /\ out.res = "Ok"
                   /\ out.log = "Card is not frozen"
                   /\ out.card = card_config
    /\ (last.op = "unfreeze" /\ last.log = "Card is not frozen")
          => /\ last.result = "Ok"
             /\ is_none(card_config.freeze_info)

C11_Witness ==
    /\ last.op = "unfreeze"
    /\ last.log = "Card is not frozen"
    /\ last.result = "Ok"
    /\ card_config.status = "Terminated"
    /\ is_none(card_config.freeze_info)
    /\ card_config.updated_at < clock.unix_timestamp

\* C12 as stated: every request whose amount exceeds limits.per_transaction is
\* denied with TransactionLimitExceeded, whatever the status, the freeze, the
\* lists, the counters and the merchant and MCC of the request.
C12_OverPerTransactionAlwaysThatError ==
    (/\ last.op = "validate_transaction"
     /\ last.amount > card_config.velocity_limits.per_transaction)
        => last.result = "TransactionLimitExceeded"

MerchantChecksPass(card, merchant_id) ==
    \/ is_none(merchant_id)
    \/ /\ card.merchant_whitelist_enabled
             => contains(card.merchant_whitelist, merchant_id.value)
       /\ ~contains(card.merchant_blocklist, merchant_id.value)

MccChecksPass(card, mcc_code) ==
    \/ is_none(mcc_code)
    \/ /\ card.mcc_whitelist_enabled => contains(card.mcc_whitelist, mcc_code.value)
       /\ ~contains(card.mcc_blocklist, mcc_code.value)

EarlierReasons ==
    {"CardNotActive", "CardFrozen", "MerchantNotWhitelisted", "MerchantBlocked",
     "MccNotWhitelisted", "MccBlocked"}

\* C12 amended: every request whose amount exceeds limits.per_transaction is
\* denied; the reason is TransactionLimitExceeded whenever the card is Active,
\* has no freeze_info and the request passes the merchant and MCC list checks,
\* whatever the counters, and otherwise the reason of the earlier failing
\* check.
C12_OverPerTransactionDeniedInOrder ==
    (/\ last.op = "validate_transaction"
     /\ last.amount > card_config.velocity_limits.per_transaction)
        => /\ last.result # "Ok"
           /\ IF /\ card_config.status = "Active"
                 /\ is_none(card_config.freeze_info)
                 /\ MerchantChecksPass(card_config, last.merchant_id)
                 /\ MccChecksPass(card_config, last.mcc_code)
              THEN last.result = "TransactionLimitExceeded"
              ELSE last.result \in EarlierReasons

C12_Witness ==
    /\ last.op = "validate_transaction"
    /\ last.amount = 2000
    /\ last.result = "TransactionLimitExceeded"
    /\ is_some(last.merchant_id)
    /\ card_config.velocity_limits.per_transaction = 1000
    /\ card_config.velocity_counters.daily_total > card_config.velocity_limits.daily

\* C13: a card whose status is not Active is always denied, and Pending,
\* Paused, Frozen and Terminated are denied with four different reasons: the
\* reason a non-active card was denied with is not the one the same request
\* gets on a card in another non-active status.
C13_NonActiveDeniedWithDistinctReasons ==
    (last.op = "transfer_hook" /\ card_config.status # "Active")
        => /\ last.result # "Ok"
           /\ \A other \in CardStatus \ {"Active", card_config.status} :
                 handler([card_config EXCEPT !.status = other], last.amount).res
                    # last.result

\* C14: a request naming a merchant of the merchant blocklist that passes the
\* earlier checks (Active, not frozen, whitelisted when a whitelist is
\* enabled) is denied with MerchantBlocked, also when the merchant is in the
\* enabled whitelist.
C14_BlocklistWins ==
    (/\ last.op = "validate_transaction"
     /\ is_some(last.merchant_id)
     /\ contains(card_config.merchant_blocklist, last.merchant_id.value)
     /\ card_config.status = "Active"
     /\ is_none(card_config.freeze_info)
     /\ card_config.merchant_whitelist_enabled
           => contains(card_config.merchant_whitelist, last.merchant_id.value))
        => last.result = "MerchantBlocked"

C14_Witness ==
    /\ last.op = "validate_transaction"
    /\ last.merchant_id = Some(1)
    /\ card_config.merchant_whitelist_enabled
    /\ contains(card_config.merchant_whitelist, 1)
    /\ contains(card_config.merchant_blocklist, 1)
    /\ last.result = "MerchantBlocked"

WithinLimits(card, amount) ==
    /\ amount <= card.velocity_limits.per_transaction
    /\ card.velocity_counters.daily_total + amount <= card.velocity_limits.daily
    /\ card.velocity_counters.weekly_total + amount <= card.velocity_limits.weekly
    /\ card.velocity_counters.monthly_total + amount <= card.velocity_limits.monthly

\* C15: with a whitelist enabled, a request that supplies a merchant (an MCC)
\* outside it is denied with MerchantNotWhitelisted (MccNotWhitelisted), and a
\* request that supplies none skips that whitelist and is decided by the
\* remaining checks; with MCC whitelist <<5411>>, mcc 5812 is denied and a
\* request without MCC succeeds.
C15_WhitelistAppliesOnlyToSuppliedValue ==
    (/\ last.op = "validate_transaction"
     /\ card_config.status = "Active"
     /\ is_none(card_config.freeze_info))
        => /\ (/\ card_config.merchant_whitelist_enabled
               /\ is_some(last.merchant_id)
               /\ ~contains(card_config.merchant_whitelist, last.merchant_id.value))
                 => last.result = "MerchantNotWhitelisted"
           /\ (/\ card_config.mcc_whitelist_enabled
               /\ is_some(last.mcc_code)
               /\ ~contains(card_config.mcc_whitelist, last.mcc_code.value)
               /\ MerchantChecksPass(card_config, last.merchant_id))
                 => last.result = "MccNotWhitelisted"
           /\ is_none(last.merchant_id)
                 => last.result \notin {"MerchantNotWhitelisted", "MerchantBlocked"}
           /\ is_none(last.mcc_code)
                 => last.result \notin {"MccNotWhitelisted", "MccBlocked"}
           /\ (/\ MerchantChecksPass(card_config, last.merchant_id)
               /\ MccChecksPass(card_config, last.mcc_code)
               /\ WithinLimits(card_config, last.amount))
                 => last.result = "Ok"
           /\ (/\ card_config.mcc_whitelist = <<5411>>
               /\ card_config.mcc_whitelist_enabled
               /\ MerchantChecksPass(card_config, last.merchant_id)
               /\ last.mcc_code = Some(5812))
                 => last.result = "MccNotWhitelisted"

C15_Witness ==
    /\ last.op = "validate_transaction"
    /\ card_config.mcc_whitelist_enabled
    /\ card_config.mcc_whitelist = <<5411>>
    /\ card_config.merchant_whitelist_enabled
    /\ is_none(last.merchant_id)
    /\ is_none(last.mcc_code)
    /\ last.result = "Ok"

ListValues(vec) == {vec[i] : i \in 1..Len(vec)}

\* C20: each merchant list holds at most 50 entries and each MCC list at most
\* 100; an add that would take a list beyond its capacity fails with the
\* list's own "full" error and leaves the list as it was, and an add that
\* succeeds leaves every given entry in the list.
C20_ListsWithinCapacity ==
    /\ Len(card_config.merchant_whitelist) <= 50
    /\ Len(card_config.merchant_blocklist) <= 50
    /\ Len(card_config.mcc_whitelist) <= 100
    /\ Len(card_config.mcc_blocklist) <= 100
    /\ \A merchants \in MerchantAddInputs :
          LET w == merchant_add_to_whitelist(card_config, merchants, clock)
              b == merchant_add_to_blocklist(card_config, merchants, clock)
          IN  /\ Cardinality(ListValues(card_config.merchant_whitelist)
                                \cup ListValues(merchants)) > 50
                    => /\ w.res = "MerchantWhitelistFull"
                       /\ Commit(card_config, w) = card_config
              /\ Cardinality(ListValues(card_config.merchant_blocklist)
                                \cup ListValues(merchants)) > 50
                    => /\ b.res = "MerchantBlocklistFull"
                       /\ Commit(card_config, b) = card_config
              /\ w.res = "Ok"
                    => ListValues(merchants) \subseteq ListValues(w.card.merchant_whitelist)
              /\ b.res = "Ok"
                    => ListValues(merchants) \subseteq ListValues(b.card.merchant_blocklist)
    /\ \A mcc_codes \in MccAddInputs \ {<<0>>} :
          LET w == mcc_add_to_whitelist(card_config, mcc_codes, clock)
              b == mcc_add_to_blocklist(card_config, mcc_codes, clock)
          IN  /\ Cardinality(ListValues(card_config.mcc_whitelist)
                                \cup ListValues(mcc_codes)) > 100
                    => /\ w.res = "MccWhitelistFull"
                       /\ Commit(card_config, w) = card_config
              /\ Cardinality(ListValues(card_config.mcc_blocklist)
                                \cup ListValues(mcc_codes)) > 100
                    => /\ b.res = "MccBlocklistFull"
                       /\ Commit(card_config, b) = card_config
              /\ w.res = "Ok"
                    => ListValues(mcc_codes) \subseteq ListValues(w.card.mcc_whitelist)
              /\ b.res = "Ok"
                    => ListValues(mcc_codes) \subseteq ListValues(b.card.mcc_blocklist)

C20_Witness ==
    /\ last.op = "add_merchants_to_whitelist"
    /\ last.result = "MerchantWhitelistFull"
    /\ Len(card_config.merchant_whitelist) = 50
    /\ Len(card_config.mcc_blocklist) = 100

\* the amount a ciphertext encrypts, and the one an encrypted total holds
Decrypt(ciphertext) == ciphertext.enc
DecryptTotal(total) == IF is_some(total) THEN Decrypt(total.value) ELSE 0

ConfidentialChecksPass(card) ==
    /\ card.status = "Active"
    /\ is_none(card.freeze_info)
    /\ card.confidential_mode

C18_ModeCheckedFirst ==
    (last.op = "confidential_transfer_hook" /\ ~card_config.confidential_mode)
        => last.result = "ConfidentialModeNotEnabled"

\* C18 amended: on a card with confidential_mode false the confidential
\* handler denies and leaves the record unchanged; the reason is
\* CardNotActive when the status is not Active, CardFrozen when an Active
\* card has freeze_info, and ConfidentialModeNotEnabled otherwise.
C18_ModeCheckedAfterStatusAndFreeze ==
    /\ (last.op = "confidential_transfer_hook" /\ ~card_config.confidential_mode)
          => last.result =
                IF card_config.status # "Active" THEN "CardNotActive"
                ELSE IF is_some(card_config.freeze_info) THEN "CardFrozen"
                ELSE "ConfidentialModeNotEnabled"
    /\ ~card_config.confidential_mode
          => \A proof_data \in ProofInputs :
                LET out == confidential_handler(card_config, proof_data)
                IN  out.res # "Ok" /\ out.card = card_config

C18_Witness ==
    /\ last.op = "confidential_transfer_hook"
    /\ last.proof_data.len >= 64
    /\ last.result = "ConfidentialModeNotEnabled"
    /\ ~card_config.confidential_mode
    /\ card_config.status = "Active"

\* C19: on a card that passes the status, freeze and confidential-mode checks
\* a proof blob shorter than 64 bytes is denied with InvalidProofData and no
\* encrypted total changes; a call changes all three encrypted totals or
\* none, and after an approved call all three are present.
C19_ShortProofChangesNothing ==
    /\ (/\ last.op = "confidential_transfer_hook"
        /\ ConfidentialChecksPass(card_config)
        /\ last.proof_data.len < 64) => last.result = "InvalidProofData"
    /\ \A proof_data \in ProofInputs :
          LET out == confidential_handler(card_config, proof_data)
              old == EncryptedTotals(card_config)
              new == EncryptedTotals(Commit(card_config, out))
          IN  /\ (ConfidentialChecksPass(card_config) /\ proof_data.len < 64)
                    => out.res = "InvalidProofData" /\ new = old
              /\ out.res # "Ok" => EncryptedTotals(out.card) = old
              /\ out.res = "Ok" => \A i \in 1..3 : is_some(new[i])
              /\ (\E i \in 1..3 : new[i] # old[i]) => (\A i \in 1..3 : new[i] # old[i])

C19_Witness ==
    /\ last.op = "confidential_transfer_hook"
    /\ last.proof_data.len < 64
    /\ last.result = "InvalidProofData"
    /\ card_config.encrypted_daily_total = Some(Ciphertext(400000000))
    /\ card_config.encrypted_monthly_total = Some(Ciphertext(400000000))

\* every entry of items is already in vec
AllPresent(vec, items) == \A i \in 1..Len(items) : contains(vec, items[i])

\* C21: adding entries that are all already present in a list succeeds and
\* leaves the list's membership unchanged, whatever the list's length up to
\* and including its capacity.
C21_AddOfPresentItemIsNoOp ==
    /\ \A merchants \in MerchantAddInputs :
          LET w == merchant_add_to_whitelist(card_config, merchants, clock)
              b == merchant_add_to_blocklist(card_config, merchants, clock)
          IN  /\ AllPresent(card_config.merchant_whitelist, merchants)
                    => /\ w.res = "Ok"
                       /\ ListValues(Commit(card_config, w).merchant_whitelist)
                             = ListValues(card_config.merchant_whitelist)
              /\ AllPresent(card_config.merchant_blocklist, merchants)
                    => /\ b.res = "Ok"
                       /\ ListValues(Commit(card_config, b).merchant_blocklist)
                             = ListValues(card_config.merchant_blocklist)
    /\ \A mcc_codes \in MccAddInputs :
          LET w == mcc_add_to_whitelist(card_config, mcc_codes, clock)
              b == mcc_add_to_blocklist(card_config, mcc_codes, clock)
          IN  /\ AllPresent(card_config.mcc_whitelist, mcc_codes)
                    => /\ w.res = "Ok"
                       /\ ListValues(Commit(card_config, w).mcc_whitelist)
                             = ListValues(card_config.mcc_whitelist)
              /\ AllPresent(card_config.mcc_blocklist, mcc_codes)
                    => /\ b.res = "Ok"
                       /\ ListValues(Commit(card_config, b).mcc_blocklist)
                             = ListValues(card_config.mcc_blocklist)

ResetOps == {"reset_daily_velocity", "reset_weekly_velocity", "reset_monthly_velocity"}

\* C22: reset_daily, reset_weekly and reset_monthly succeed exactly when the
\* caller is the admin or a member of reset_authorities, and then zero their
\* window at the current slot; for any other caller they fail with
\* Unauthorized and leave the counters and last-reset slots unchanged.
C22_ResetOnlyByAdminOrResetAuthority ==
    [][last'.op \in ResetOps =>
        LET authorized ==
                \/ last'.authority = global_config.admin
                \/ last'.authority \in ListValues(global_config.reset_authorities)
            c == card_config'.velocity_counters
        IN  /\ (last'.result = "Ok") <=> authorized
            /\ ~authorized =>
                  /\ last'.result = "Unauthorized"
                  /\ card_config' = card_config
            /\ (authorized /\ last'.op = "reset_daily_velocity") =>
                  /\ c.daily_total = 0 /\ c.daily_transaction_count = 0
                  /\ c.last_daily_reset_slot = clock.slot
            /\ (authorized /\ last'.op = "reset_weekly_velocity") =>
                  /\ c.weekly_total = 0 /\ c.weekly_transaction_count = 0
                  /\ c.last_weekly_reset_slot = clock.slot
            /\ (authorized /\ last'.op = "reset_monthly_velocity") =>
                  /\ c.monthly_total = 0 /\ c.monthly_transaction_count = 0
                  /\ c.last_monthly_reset_slot = clock.slot
    ]_vars

\* a caller that is neither the admin nor a reset authority was refused on a
\* card with recorded spending, after a reset by the admin had succeeded on
\* another window
C22_Witness ==
    /\ last.op = "reset_daily_velocity"
    /\ last.authority = "other"
    /\ last.result = "Unauthorized"
    /\ card_config.velocity_counters.daily_total > 0
    /\ card_config.velocity_counters.weekly_total = 0

GlobalOps == {"global_pause", "global_resume"}

\* C23: is_paused changes only through global_pause (which sets it true) and
\* global_resume (which sets it false) called by the admin; a call by anyone
\* else fails with Unauthorized and leaves GlobalConfig unchanged, and no
\* other instruction changes GlobalConfig.
C23_PausedOnlyByAdminPauseAndResume ==
    [][/\ global_config'.is_paused # global_config.is_paused =>
            /\ last'.op \in GlobalOps
            /\ last'.authority = global_config.admin
            /\ last'.result = "Ok"
       /\ (last'.op \in GlobalOps /\ last'.authority = global_config.admin) =>
            /\ last'.result = "Ok"
            /\ global_config'.is_paused = (last'.op = "global_pause")
            /\ global_config'.admin = global_config.admin
       /\ (last'.op \in GlobalOps /\ last'.authority # global_config.admin) =>
            /\ last'.result = "Unauthorized"
            /\ global_config' = global_config
       /\ last'.op \notin GlobalOps => global_config' = global_config
    ]_vars

\* a caller other than the admin was refused global_resume while the program
\* was paused
C23_Witness ==
    /\ last.op = "global_resume"
    /\ last.authority = "other"
    /\ last.result = "Unauthorized"
    /\ global_config.is_paused

\* C24: initializing a card whose record exists fails with
\* AccountAlreadyExists and leaves the record (status, freeze, limits,
\* counters, lists) unchanged.
C24_ReinitializeFailsWithAccountAlreadyExists ==
    [][last'.op = "initialize_card_config" =>
          /\ last'.result = "AccountAlreadyExists"
          /\ card_config' = card_config
    ]_vars

\* the part of C24 the program keeps: a second initialization never succeeds
\* and never changes the record
ReinitializeFailsAndKeepsRecord ==
    [][last'.op = "initialize_card_config" =>
          /\ last'.result # "Ok"
          /\ card_config' = card_config
    ]_vars

\* C29: after record(a1), ..., record(an) with no reset in between, from
\* zeroed counters, each of the three totals equals a1 + ... + an and each of
\* the three counts equals n, whatever the amounts in the 64-bit range and
\* whatever n.
C29_TotalsAreTheSumAndCountsTheNumber ==
    LET c == card_config.velocity_counters IN
    /\ last.sum.carry = 0
    /\ c.daily_total = last.sum.value
    /\ c.weekly_total = last.sum.value
    /\ c.monthly_total = last.sum.value
    /\ c.daily_transaction_count = last.n
    /\ c.weekly_transaction_count = last.n
    /\ c.monthly_transaction_count = last.n

LimitErrors == {"DailyLimitExceeded", "WeeklyLimitExceeded", "MonthlyLimitExceeded"}

\* C30: when a total plus the amount leaves the 64-bit range, the limit check
\* denies with the limit-exceeded error of that window (the daily one first);
\* it neither wraps around to a sum that passes nor aborts without a decision.
C30_OverflowingSumIsDenied ==
    LET c == card_config.velocity_counters
        d == overflowing_add(c.daily_total, last.amount).overflow
        w == overflowing_add(c.weekly_total, last.amount).overflow
        m == overflowing_add(c.monthly_total, last.amount).overflow
    IN  (/\ last.op = "transfer_hook"
         /\ card_config.status = "Active"
         /\ is_none(card_config.freeze_info)
         /\ ~u64_gt(last.amount, card_config.velocity_limits.per_transaction)
         /\ (d \/ w \/ m))
        => /\ last.result \in LimitErrors
           /\ d => last.result = "DailyLimitExceeded"

\* total + amount > limit, on the exact sum
Exceeds(total, amount, limit) ==
    LET r == overflowing_add(total, amount) IN
    r.overflow \/ u64_gt(r.value, limit)

\* C25: update_limits replaces only the limits and updated_at (totals, counts
\* and last-reset slots stay, also when a new limit is below the current
\* total), and the authorization attempt that follows is denied whenever a
\* current total plus its amount exceeds the new limit.
C25_UpdateLimitsKeepsCountersAndNextCheckEnforces ==
    [][/\ (last'.op = "update_velocity_limits" /\ last'.result = "Ok") =>
            card_config' = [card_config EXCEPT
                               !.velocity_limits = card_config'.velocity_limits,
                               !.updated_at = card_config'.updated_at]
       /\ (/\ last.op = "update_velocity_limits" /\ last.result = "Ok"
           /\ last'.op = "transfer_hook"
           /\ LET c == card_config.velocity_counters
                  l == card_config.velocity_limits
              IN  \/ Exceeds(c.daily_total, last'.amount, l.daily)
                  \/ Exceeds(c.weekly_total, last'.amount, l.weekly)
                  \/ Exceeds(c.monthly_total, last'.amount, l.monthly))
          => last'.result # "Ok"
    ]_vars

\* the same statement where every sum stays within the 64-bit range (the
\* totals of SpecVelocity)
UpdateLimitsEnforcedWithinRange ==
    [][/\ (last'.op = "update_velocity_limits" /\ last'.result = "Ok") =>
            card_config' = [card_config EXCEPT
                               !.velocity_limits = card_config'.velocity_limits,
                               !.updated_at = card_config'.updated_at]
       /\ (/\ last.op = "update_velocity_limits" /\ last.result = "Ok"
           /\ last'.op = "transfer_hook"
           /\ LET c == card_config.velocity_counters
                  l == card_config.velocity_limits
              IN  \/ c.daily_total + last'.amount > l.daily
                  \/ c.weekly_total + last'.amount > l.weekly
                  \/ c.monthly_total + last'.amount > l.monthly)
          => last'.result # "Ok"
    ]_vars

\* C26: the counters change only through record_transaction and the resets,
\* and every record_transaction that adds an amount to the counters comes
\* immediately after a successful transfer_hook check of that same amount on
\* the same card state.
C26_RecordOnlyAfterSuccessfulCheck ==
    [][/\ card_config'.velocity_counters # card_config.velocity_counters =>
            last'.op \in {"record_transaction"} \cup ResetOps
       /\ (last'.op = "record_transaction" /\ last'.result = "Ok") =>
            /\ last.op = "transfer_hook"
            /\ last.result = "Ok"
            /\ last.amount = last'.amount
    ]_vars

\* C27: an authorization attempt made when a window's span has passed since
\* the window's last reset is checked against a total of 0 for that window:
\* it is denied with the window's limit-exceeded error only if the amount
\* alone exceeds the limit.
C27_ExpiredWindowCountsAsZero ==
    LET c == card_config.velocity_counters
        l == card_config.velocity_limits
    IN  last.op = "transfer_hook" =>
          /\ (/\ saturating_sub(clock.slot, c.last_daily_reset_slot) >= SLOTS_PER_DAY
              /\ last.result = "DailyLimitExceeded")
                => last.amount > l.daily
          /\ (/\ saturating_sub(clock.slot, c.last_weekly_reset_slot) >= SLOTS_PER_WEEK
              /\ last.result = "WeeklyLimitExceeded")
                => last.amount > l.weekly
          /\ (/\ saturating_sub(clock.slot, c.last_monthly_reset_slot) >= SLOTS_PER_MONTH
              /\ last.result = "MonthlyLimitExceeded")
                => last.amount > l.monthly

\* slots at which the lazy reset is evaluated: before, at and after each
\* window's threshold counted from the current slot
ResetSlotInputs ==
    {0, clock.slot,
     clock.slot + SLOTS_PER_DAY - 1, clock.slot + SLOTS_PER_DAY,
     clock.slot + SLOTS_PER_WEEK - 1, clock.slot + SLOTS_PER_WEEK,
     clock.slot + SLOTS_PER_MONTH - 1, clock.slot + SLOTS_PER_MONTH,
     clock.slot + SLOTS_PER_MONTH + SLOTS_PER_DAY}

\* C28: the lazy reset at slot t zeroes a window's total and count and sets
\* its last-reset slot to t exactly when t minus that window's last-reset slot
\* is at least the window's span (216000, 1512000, 6480000), and leaves the
\* total, count and last-reset slot of every other window unchanged.
C28_WindowsResetIndependently ==
    \A t \in ResetSlotInputs :
        LET c == card_config.velocity_counters
            r == auto_reset_if_needed(c, t)
        IN  /\ IF t - c.last_daily_reset_slot >= 216000
                 THEN /\ r.daily_total = 0 /\ r.daily_transaction_count = 0
                      /\ r.last_daily_reset_slot = t
                 ELSE /\ r.daily_total = c.daily_total
                      /\ r.daily_transaction_count = c.daily_transaction_count
                      /\ r.last_daily_reset_slot = c.last_daily_reset_slot
            /\ IF t - c.last_weekly_reset_slot >= 1512000
                 THEN /\ r.weekly_total = 0 /\ r.weekly_transaction_count = 0
                      /\ r.last_weekly_reset_slot = t
                 ELSE /\ r.weekly_total = c.weekly_total
                      /\ r.weekly_transaction_count = c.weekly_transaction_count
                      /\ r.last_weekly_reset_slot = c.last_weekly_reset_slot
            /\ IF t - c.last_monthly_reset_slot >= 6480000
                 THEN /\ r.monthly_total = 0 /\ r.monthly_transaction_count = 0
                      /\ r.last_monthly_reset_slot = t
                 ELSE /\ r.monthly_total = c.monthly_total
                      /\ r.monthly_transaction_count = c.monthly_transaction_count
                      /\ r.last_monthly_reset_slot = c.last_monthly_reset_slot

\* a record one day after the last reset found the daily window expired and
\* the weekly and monthly ones not: the daily total restarted from the
\* recorded amount, the other totals kept the earlier spending
C28_Witness ==
    LET c == card_config.velocity_counters IN
    /\ last.op = "record_transaction"
    /\ c.last_daily_reset_slot = SLOTS_PER_DAY
    /\ c.last_weekly_reset_slot = 0
    /\ c.last_monthly_reset_slot = 0
    /\ c.daily_total = last.amount
    /\ c.weekly_total > last.amount
    /\ c.monthly_total = c.weekly_total
    /\ c.daily_transaction_count = 1
    /\ c.weekly_transaction_count = 2

C32_WhitelistEnabledIffNonEmpty ==
    /\ card_config.merchant_whitelist_enabled <=> card_config.merchant_whitelist # <<>>
    /\ card_config.mcc_whitelist_enabled <=> card_config.mcc_whitelist # <<>>

\* a removal has emptied the merchant whitelist and left it disabled, while
\* the MCC whitelist still holds an entry and is enabled
C32_Witness ==
    /\ last.op = "remove_merchants_from_whitelist"
    /\ last.result = "Ok"
    /\ card_config.merchant_whitelist = <<>>
    /\ ~card_config.merchant_whitelist_enabled
    /\ card_config.updated_at = clock.unix_timestamp
    /\ card_config.mcc_whitelist # <<>>
    /\ card_config.mcc_whitelist_enabled
    /\ card_config.merchant_blocklist # <<>>

AddOps == {"add_merchants_to_whitelist", "add_merchants_to_blocklist",
           "add_mcc_codes_to_whitelist", "add_mcc_codes_to_blocklist"}

AddErrors == {"MerchantWhitelistFull", "MerchantBlocklistFull",
              "MccWhitelistFull", "MccBlocklistFull", "InvalidMccCode"}

NoDuplicates(vec) == Cardinality(ListValues(vec)) = Len(vec)

\* C35: no list ever holds the same merchant or MCC twice, also after
\* batches that repeat an entry, so that removing x from a list leaves a
\* list that does not hold x.
C35_ListsHoldNoDuplicates ==
    /\ NoDuplicates(card_config.merchant_whitelist)
    /\ NoDuplicates(card_config.merchant_blocklist)
    /\ NoDuplicates(card_config.mcc_whitelist)
    /\ NoDuplicates(card_config.mcc_blocklist)
    /\ \A merchants \in EditMerchantRemoves :
          LET w == merchant_remove_from_whitelist(card_config, merchants, clock)
              b == merchant_remove_from_blocklist(card_config, merchants, clock)
          IN  \A i \in 1..Len(merchants) :
                 /\ w.res = "Ok" /\ ~contains(w.card.merchant_whitelist, merchants[i])
                 /\ b.res = "Ok" /\ ~contains(b.card.merchant_blocklist, merchants[i])
    /\ \A mcc_codes \in EditMccRemoves :
          LET w == mcc_remove_from_whitelist(card_config, mcc_codes, clock)
              b == mcc_remove_from_blocklist(card_config, mcc_codes, clock)
          IN  \A i \in 1..Len(mcc_codes) :
                 /\ w.res = "Ok" /\ ~contains(w.card.mcc_whitelist, mcc_codes[i])
                 /\ b.res = "Ok" /\ ~contains(b.card.mcc_blocklist, mcc_codes[i])

\* a batch that names merchant 2 twice was added and merchant 1 has been
\* removed since: the list holds merchant 2 once
C35_Witness ==
    /\ last.op = "remove_merchants_from_whitelist"
    /\ last.result = "Ok"
    /\ card_config.merchant_whitelist = <<2>>
    /\ card_config.mcc_blocklist = <<5812, 5411>>

\* C34: each explicit reset applied twice at the same slot gives the state
\* one application gives, and so does the lazy reset; the lazy reset at a
\* slot earlier than a window's last-reset slot leaves that window as it is.
C34_ResetsAreIdempotent ==
    /\ LET d == reset_daily(card_config, clock).card
           w == reset_weekly(card_config, clock).card
           m == reset_monthly(card_config, clock).card
       IN  /\ reset_daily(d, clock).card = d
           /\ reset_weekly(w, clock).card = w
           /\ reset_monthly(m, clock).card = m
    /\ \A t \in ResetSlotInputs :
          LET c == card_config.velocity_counters
              r == auto_reset_if_needed(c, t)
          IN  /\ auto_reset_if_needed(r, t) = r
              /\ VelocityCounters_reset_daily(VelocityCounters_reset_daily(c, t), t)
                    = VelocityCounters_reset_daily(c, t)
              /\ VelocityCounters_reset_weekly(VelocityCounters_reset_weekly(c, t), t)
                    = VelocityCounters_reset_weekly(c, t)
              /\ VelocityCounters_reset_monthly(VelocityCounters_reset_monthly(c, t), t)
                    = VelocityCounters_reset_monthly(c, t)
              /\ t < c.last_daily_reset_slot =>
                    /\ r.daily_total = c.daily_total
                    /\ r.daily_transaction_count = c.daily_transaction_count
                    /\ r.last_daily_reset_slot = c.last_daily_reset_slot
              /\ t < c.last_weekly_reset_slot =>
                    /\ r.weekly_total = c.weekly_total
                    /\ r.weekly_transaction_count = c.weekly_transaction_count
                    /\ r.last_weekly_reset_slot = c.last_weekly_reset_slot
              /\ t < c.last_monthly_reset_slot =>
                    /\ r.monthly_total = c.monthly_total
                    /\ r.monthly_transaction_count = c.monthly_transaction_count
                    /\ r.last_monthly_reset_slot = c.last_monthly_reset_slot

\* spending was recorded after the daily window restarted a day after the
\* card's creation, so that slot 0 lies before the window's last reset; the
\* weekly window has been reset by the admin at that later slot
C34_Witness ==
    LET c == card_config.velocity_counters IN
    /\ last.op = "reset_weekly_velocity"
    /\ last.result = "Ok"
    /\ c.last_daily_reset_slot = SLOTS_PER_DAY
    /\ c.last_weekly_reset_slot = SLOTS_PER_DAY
    /\ c.last_monthly_reset_slot = 0
    /\ c.daily_total > 0
    /\ c.weekly_total = 0
    /\ c.monthly_total > c.daily_total

EncryptedTotalsAbsent(card) ==
    /\ is_none(card.encrypted_daily_total)
    /\ is_none(card.encrypted_weekly_total)
    /\ is_none(card.encrypted_monthly_total)

\* C36: no instruction sets confidential_mode: it is false in every state
\* reached from initialize_card_config, every confidential hook call on an
\* Active card without a freeze ends in ConfidentialModeNotEnabled, and the
\* encrypted totals stay absent.
C36_ConfidentialModeNeverSet ==
    /\ ~card_config.confidential_mode
    /\ EncryptedTotalsAbsent(card_config)
    /\ (/\ last.op = "confidential_transfer_hook"
        /\ card_config.status = "Active"
        /\ is_none(card_config.freeze_info))
       => last.result = "ConfidentialModeNotEnabled"

\* a confidential hook call with a well-formed proof was refused on an
\* Active card that has recorded spending and had its policy replaced
C36_Witness ==
    /\ last.op = "confidential_transfer_hook"
    /\ last.proof_data.len = 96
    /\ last.result = "ConfidentialModeNotEnabled"
    /\ card_config.status = "Active"
    /\ is_none(card_config.freeze_info)
    /\ card_config.policy = RestrictedPolicy
    /\ card_config.velocity_counters.daily_total > 0

\* the fields of one window of the plaintext counters
WindowFields(c, kind) ==
    IF kind = "daily"
      THEN <<c.daily_total, c.daily_transaction_count, c.last_daily_reset_slot>>
    ELSE IF kind = "weekly"
      THEN <<c.weekly_total, c.weekly_transaction_count, c.last_weekly_reset_slot>>
    ELSE <<c.monthly_total, c.monthly_transaction_count, c.last_monthly_reset_slot>>

ResetKind(op) ==
    IF op = "reset_daily_velocity" THEN "daily"
    ELSE IF op = "reset_weekly_velocity" THEN "weekly" ELSE "monthly"

MaxBalance == 600

CardAmounts == {100, 300}

SlotSteps == {SLOTS_PER_DAY \div 2, SLOTS_PER_DAY, SLOTS_PER_MONTH}

\* create_compressed_card at slot 0 with limits 300 / 400 / 1000
InitialCardState ==
    [balance |-> 0, spending_limit |-> 300, daily_limit |-> 400,
     monthly_limit |-> 1000, current_daily_spend |-> 0,
     current_monthly_spend |-> 0, last_reset_slot |-> 0, is_frozen |-> FALSE]

SinceLastReset(card, clk) ==
    [card  |-> [card EXCEPT !.last_reset_slot = 0],
     clock |-> [clk EXCEPT !.slot = saturating_sub(@, card.last_reset_slot)]]

ResetDue ==
    \/ should_reset_daily(card_config.last_reset_slot, clock.slot)
    \/ should_reset_monthly(card_config.last_reset_slot, clock.slot)

InitCardState ==
    /\ card_config = InitialCardState
    /\ global_config = InitialGlobalConfig
    /\ clock = InitialClock
    /\ last = NoCall
    /\ limit_lowered = FALSE

\* the slot moves on once the resets that were due have been applied
AdvanceSlot(d) ==
    /\ ~ResetDue
    /\ clock' = [clock EXCEPT !.slot = @ + d]
    /\ last' = Call("tick", "-", d, "Ok", "-")
    /\ UNCHANGED <<card_config, global_config, limit_lowered>>

AddFunds(amount) ==
    /\ card_config.balance + amount <= MaxBalance
    /\ card_config' = [card_config EXCEPT !.balance = @ + amount]
    /\ last' = Call("add_funds", "-", amount, "Ok", "-")
    /\ UNCHANGED <<global_config, clock, limit_lowered>>

ApplySpending(amount) ==
    LET out == CardState_apply_spending(card_config, amount) IN
    /\ card_config' = out.card
    /\ last' = Call("apply_spending", "-", amount, out.res, "-")
    /\ UNCHANGED <<global_config, clock, limit_lowered>>

ResetDailyWhenDue ==
    /\ should_reset_daily(card_config.last_reset_slot, clock.slot)
    /\ LET now == SinceLastReset(CardState_reset_daily(card_config, clock.slot),
                                 clock) IN
         /\ card_config' = now.card
         /\ clock' = now.clock
    /\ last' = Call("reset_daily", "-", 0, "Ok", "-")
    /\ UNCHANGED <<global_config, limit_lowered>>

ResetMonthlyWhenDue ==
    /\ should_reset_monthly(card_config.last_reset_slot, clock.slot)
    /\ LET now == SinceLastReset(CardState_reset_monthly(card_config, clock.slot),
                                 clock) IN
         /\ card_config' = now.card
         /\ clock' = now.clock
    /\ last' = Call("reset_monthly", "-", 0, "Ok", "-")
    /\ UNCHANGED <<global_config, limit_lowered>>

AdvanceSomeSlots == \E d \in SlotSteps : AdvanceSlot(d)

NextCardState ==
    \/ AdvanceSomeSlots
    \/ \E amount \in CardAmounts : AddFunds(amount)
    \/ \E amount \in CardAmounts : ApplySpending(amount)
    \/ ResetDailyWhenDue
    \/ ResetMonthlyWhenDue

\* the slot keeps advancing and a reset that is due is applied
SpecCardState ==
    /\ InitCardState
    /\ [][NextCardState]_vars
    /\ WF_vars(AdvanceSomeSlots)
    /\ SF_vars(ResetDailyWhenDue)
    /\ SF_vars(ResetMonthlyWhenDue)

\* C38: on a compressed card whose slot keeps advancing and whose resets are
\* applied whenever they are due, a monthly spend above zero is eventually
\* set back to zero: the daily resets do not postpone the monthly one.
C38_MonthlySpendEventuallyReset ==
    (card_config.current_monthly_spend > 0)
        ~> (card_config.current_monthly_spend = 0)

(***************************************************************************)
(* merchant-registry: the registry with two merchant ids                   *)
(* global_config holds the MerchantRegistryConfig and card_config the      *)
(* MerchantRecord PDAs by merchant_id.                                     *)
(***************************************************************************)
MerchantIds == {1, 2}

RegistryAuthorities == {"admin", "other"}

RegisterInputs ==
    { [merchant_name |-> n, visa_mid |-> 16, risk_tier |-> t,
       country_code |-> c, metadata_uri |-> None] :
        n \in {10}, t \in {0, 1, 4, 5}, c \in {<<85, 83>>} }
    \cup { [merchant_name |-> 65, visa_mid |-> 16, risk_tier |-> 1,
            country_code |-> <<85, 83>>, metadata_uri |-> None],
           [merchant_name |-> 10, visa_mid |-> 17, risk_tier |-> 1,
            country_code |-> <<85, 83>>, metadata_uri |-> None],
           [merchant_name |-> 10, visa_mid |-> 16, risk_tier |-> 4,
            country_code |-> <<85, 115>>, metadata_uri |-> None],
           [merchant_name |-> 10, visa_mid |-> 16, risk_tier |-> 4,
            country_code |-> <<85, 83>>, metadata_uri |-> Some(201)],
           [merchant_name |-> 10, visa_mid |-> 16, risk_tier |-> 3,
            country_code |-> <<85, 83>>, metadata_uri |-> Some(200)] }

UpdateTiers == {None, Some(0), Some(1), Some(3), Some(4), Some(5)}

UpdateActive == {None, Some(TRUE), Some(FALSE)}

UpdateUris == {None, Some(200), Some(201)}

InitRegistry ==
    /\ global_config = initialize_registry("admin", InitialClock)
    /\ card_config = [id \in MerchantIds |-> None]
    /\ clock = InitialClock
    /\ last = [NoCall EXCEPT !.op = "initialize_registry", !.authority = "admin"]
    /\ limit_lowered = FALSE

RegistryAccounts(id) == [config |-> global_config, merchant |-> card_config[id]]

RegisterMerchant(id, authority, args) ==
    LET out == register_merchant(global_config, card_config[id], authority,
                                 args, clock)
        now == Commit(RegistryAccounts(id), out) IN
    /\ global_config' = now.config
    /\ card_config' = [card_config EXCEPT ![id] = now.merchant]
    /\ last' = Call("register_merchant", authority, id, out.res, out.log)
    /\ UNCHANGED <<clock, limit_lowered>>

UpdateMerchant(id, authority, risk_tier, is_active, metadata_uri) ==
    LET out == update_merchant(global_config, card_config[id], authority,
                               risk_tier, is_active, metadata_uri, clock)
        now == Commit(RegistryAccounts(id), out) IN
    /\ global_config' = now.config
    /\ card_config' = [card_config EXCEPT ![id] = now.merchant]
    /\ last' = Call("update_merchant", authority, id, out.res, out.log)
    /\ UNCHANGED <<clock, limit_lowered>>

RevokeMerchant(id, authority) ==
    LET out == revoke_merchant(global_config, card_config[id], authority, clock)
        now == Commit(RegistryAccounts(id), out) IN
    /\ global_config' = now.config
    /\ card_config' = [card_config EXCEPT ![id] = now.merchant]
    /\ last' = Call("revoke_merchant", authority, id, out.res, out.log)
    /\ UNCHANGED <<clock, limit_lowered>>

NextRegistry ==
    \/ \E id \in MerchantIds, a \in RegistryAuthorities, args \in RegisterInputs :
          RegisterMerchant(id, a, args)
    \/ \E id \in MerchantIds, a \in RegistryAuthorities, t \in UpdateTiers,
          act \in UpdateActive, uri \in UpdateUris :
          UpdateMerchant(id, a, t, act, uri)
    \/ \E id \in MerchantIds, a \in RegistryAuthorities : RevokeMerchant(id, a)

SpecRegistry == InitRegistry /\ [][NextRegistry]_vars

BlockedRecords ==
    {id \in MerchantIds :
        is_some(card_config[id]) /\ card_config[id].value.risk_tier = BLOCKED}

\* C39: after any sequence of register_merchant, update_merchant and
\* revoke_merchant, config.blocked_count is the number of merchant records of
\* risk tier 4, and no instruction has panicked on its checked arithmetic.
C39_BlockedCountIsNumberOfBlockedRecords ==
    /\ global_config.blocked_count = Cardinality(BlockedRecords)
    /\ last.result # "Panic"

\* a blocked merchant was moved back to tier 1 (the checked_sub ran) while the
\* other merchant is still blocked
C39_Witness ==
    /\ last.op = "update_merchant"
    /\ last.result = "Ok"
    /\ last.log = <<4, 1>>
    /\ global_config.blocked_count = 1
    /\ global_config.total_merchants = 2

(***************************************************************************)
(* discard-state: one DID over time                                        *)
(* card_config holds the DIDCommitmentState record.                        *)
(***************************************************************************)
MaxRotations == 2

DidHashes == {1, 2}

GuardianCounts == {0, 2}

InitDID ==
    /\ card_config = store_did_commitment(1, 1, 2, InitialClock.slot)
    /\ global_config = InitialGlobalConfig
    /\ clock = InitialClock
    /\ last = [NoCall EXCEPT !.op = "store_did_commitment"]
    /\ limit_lowered = FALSE

RotateKey(new_commitment_hash, new_document_hash) ==
    /\ card_config.key_rotation_count < MaxRotations
    /\ card_config' = DID_rotate_key(card_config, new_commitment_hash,
                                     new_document_hash, clock.slot)
    /\ last' = Call("rotate_key", "-", new_commitment_hash, "Ok", card_config.status)
    /\ UNCHANGED <<global_config, clock, limit_lowered>>

Suspend ==
    /\ card_config' = DID_suspend(card_config, clock.slot)
    /\ last' = Call("suspend", "-", 0, "Ok", card_config.status)
    /\ UNCHANGED <<global_config, clock, limit_lowered>>

Revoke ==
    /\ card_config' = DID_revoke(card_config, clock.slot)
    /\ last' = Call("revoke", "-", 0, "Ok", card_config.status)
    /\ UNCHANGED <<global_config, clock, limit_lowered>>

Reactivate ==
    LET out == DID_reactivate(card_config, clock.slot) IN
    /\ card_config' = out.card
    /\ last' = Call("reactivate", "-", 0, out.res, card_config.status)
    /\ UNCHANGED <<global_config, clock, limit_lowered>>

UpdateGuardianCount(count) ==
    /\ card_config' = DID_update_guardian_count(card_config, count, clock.slot)
    /\ last' = Call("update_guardian_count", "-", count, "Ok", card_config.status)
    /\ UNCHANGED <<global_config, clock, limit_lowered>>

NextDID ==
    \/ Tick
    \/ \E c \in DidHashes, d \in DidHashes : RotateKey(c, d)
    \/ Suspend
    \/ Revoke
    \/ Reactivate
    \/ \E count \in GuardianCounts : UpdateGuardianCount(count)

SpecDID == InitDID /\ [][NextDID]_vars

\* C40: revoking a DID is permanent: once the status is Revoked no suspend,
\* reactivate, revoke, rotate_key or update_guardian_count makes it Active or
\* Suspended again (last.log is the status the call found).
C40_RevokedIsPermanent ==
    (last.log = "Revoked" /\ last.op # "tick") => card_config.status = "Revoked"

====
